---------------------------- MODULE Spec2Model ----------------------------
(***************************************************************************)
(* send2kindle: the content-extraction pipeline.                           *)
(*                                                                         *)
(* One call of extract(url) is modelled as a state machine.  JavaScript    *)
(* strings are TLA+ strings; every await of the source is a suspension     *)
(* point, so each action is the code that runs between two awaits.  The    *)
(* network (fetch, response.json(), response.text()) and the readability   *)
(* library are the environment: their outcomes are chosen from small       *)
(* pools.                                                                  *)
(***************************************************************************)
EXTENDS Integers, Sequences, FiniteSets, TLC

VARIABLES
    url,        \* the argument of extract(url)
    pc,         \* where the call is suspended
    calls,      \* the extractors (and libraries) invoked so far, in order
    requests,   \* the URLs handed to fetch so far, in order
    inner,      \* the promise of the chosen extractor
    outer,      \* the promise returned by extract(url)
    data,       \* the body of the primary API response, once parsed
    subs,       \* fetchReferencedTweets: one task per TWEET entry
    lookup,     \* the map fetchReferencedTweets returned
    primary,    \* the settlement of the primary fetch (API or page)
    html,       \* the text of the page fetched by extractArticle
    parsed,     \* what Readability.parse() returned
    input,      \* the argument of the function under study
    output,     \* the functions applied to it so far, each with its result
    argv,       \* process.argv
    files,      \* the paths fs.existsSync finds
    mainPc,     \* where main() stands
    articles,   \* the documents main has got from extract so far
    extracted,  \* the calls of extract(url), each with its settlement
    converted,  \* the calls of convertToEpub and convertBookToEpub
    sent,       \* the files sendToKindle was called with
    failure     \* the message main() rejected with

\* the state of one extract(url) call
extractVars == <<url, pc, calls, requests, inner, outer, data, subs, lookup, primary,
                 html, parsed>>

\* the state of the study of one function
pureVars == <<input, output>>

\* the state of one run of main()
mainVars == <<argv, files, mainPc, articles, extracted, converted, sent, failure>>

\* what the study of one function leaves alone
outsideStudy == <<extractVars, mainVars>>

\* what a call of extract(url) leaves alone
outsideExtract == <<pureVars, mainVars>>

\* what a run of main() leaves alone: extract(url) is seen by its settlement
outsideMain == <<extractVars, pureVars>>

vars == <<extractVars, pureVars, mainVars>>

-----------------------------------------------------------------------------
(* JavaScript values *)

\* undefined / null: a value no string of the pools is equal to.
Undefined == "<undefined>"

\* null where the code tells it from undefined
Null == "<null>"

\* An optional object is a sequence of length 0 or 1.
None == <<>>
Some(v) == <<v>>

\* JavaScript truthiness of a string-or-undefined value.
Truthy(s) == s # Undefined /\ s # ""

\* a || b on string-or-undefined values.
OrElse(a, b) == IF Truthy(a) THEN a ELSE b

-----------------------------------------------------------------------------
(* String.prototype helpers *)

CharAt(s, i) == SubSeq(s, i, i)

StartsAt(s, sub, i) ==
    /\ i >= 1
    /\ i + Len(sub) - 1 <= Len(s)
    /\ SubSeq(s, i, i + Len(sub) - 1) = sub

\* s.includes(sub)
Includes(s, sub) == \E i \in 1..(Len(s) - Len(sub) + 1) : StartsAt(s, sub, i)

\* the least member of a set of indices, or 0 when it is empty
Least(S) == IF S = {} THEN 0 ELSE CHOOSE i \in S : \A j \in S : i <= j

\* the greatest member of a set of indices, or 0 when it is empty
Greatest(S) == IF S = {} THEN 0 ELSE CHOOSE i \in S : \A j \in S : i >= j

\* the first index >= from where sub starts in s, or 0
IndexFrom(s, sub, from) ==
    Least({i \in from..(Len(s) - Len(sub) + 1) : StartsAt(s, sub, i)})

IsSpace(c) == c \in {" ", "\n", "\t", "\r", "\f"}

IsDigit(c) == c \in {"0", "1", "2", "3", "4", "5", "6", "7", "8", "9"}

\* s.trim()
Trim(s) ==
    LET solid == {i \in 1..Len(s) : ~IsSpace(CharAt(s, i))}
    IN  IF solid = {} THEN ""
        ELSE SubSeq(s, CHOOSE i \in solid : \A j \in solid : i <= j,
                       CHOOSE i \in solid : \A j \in solid : i >= j)

\* s.split(sep), sep a single character
RECURSIVE Split(_, _)
Split(s, sep) ==
    LET i == IndexFrom(s, sep, 1)
    IN  IF i = 0 THEN <<s>>
        ELSE <<SubSeq(s, 1, i - 1)>> \o Split(SubSeq(s, i + 1, Len(s)), sep)

\* parts.join(sep)
RECURSIVE Join(_, _)
Join(parts, sep) ==
    IF parts = <<>> THEN ""
    ELSE IF Len(parts) = 1 THEN parts[1]
    ELSE parts[1] \o sep \o Join(Tail(parts), sep)

\* c.repeat(n)
RECURSIVE Repeat(_, _)
Repeat(c, n) == IF n = 0 THEN "" ELSE c \o Repeat(c, n - 1)

-----------------------------------------------------------------------------
(* twitter.js: URL classification and parsing *)

isTwitterUrl(u) ==
    (Includes(u, "x.com/") \/ Includes(u, "twitter.com/")) /\ Includes(u, "/status/")

\* the end (exclusive) of the run of digits starting at i
RECURSIVE DigitsEnd(_, _)
DigitsEnd(s, i) ==
    IF i <= Len(s) /\ IsDigit(CharAt(s, i)) THEN DigitsEnd(s, i + 1) ELSE i

\* /(?:x\.com|twitter\.com)\/([^\/]+)\/status\/(\d+)/ tried at position i
TweetUrlMatchAt(u, i) ==
    LET host == IF StartsAt(u, "x.com/", i) THEN "x.com/"
                ELSE IF StartsAt(u, "twitter.com/", i) THEN "twitter.com/"
                ELSE ""
        u0   == i + Len(host)
        j    == IndexFrom(u, "/", u0)
    IN  IF host = "" \/ j = 0 \/ j = u0 THEN None
        ELSE IF ~StartsAt(u, "/status/", j) THEN None
        ELSE IF DigitsEnd(u, j + 8) = j + 8 THEN None
        ELSE Some([username |-> SubSeq(u, u0, j - 1),
                   tweetId  |-> SubSeq(u, j + 8, DigitsEnd(u, j + 8) - 1)])

\* url.match(...): the leftmost match, or None
TweetUrlMatch(u) ==
    LET hits == {i \in 1..Len(u) : TweetUrlMatchAt(u, i) # None}
    IN  IF hits = {} THEN None
        ELSE TweetUrlMatchAt(u, CHOOSE i \in hits : \A j \in hits : i <= j)

-----------------------------------------------------------------------------
(* twitter.js: the article renderer *)

\* Map.prototype.set on a map held as a function
MapSet(m, k, v) == [x \in (DOMAIN m) \cup {k} |-> IF x = k THEN v ELSE m[x]]

EmptyMap == [x \in {} |-> ""]

\* mediaById: media_id -> original_img_url
RECURSIVE MediaById(_)
MediaById(mediaEntities) ==
    IF mediaEntities = <<>> THEN EmptyMap
    ELSE LET n    == Len(mediaEntities)
             e    == mediaEntities[n]
             rest == MediaById(SubSeq(mediaEntities, 1, n - 1))
         IN  IF Truthy(e.media_id) /\ Truthy(e.original_img_url)
             THEN MapSet(rest, e.media_id, e.original_img_url)
             ELSE rest

RECURSIVE MediaLookupOver(_, _)
MediaLookupOver(entries, byId) ==
    IF entries = <<>> THEN EmptyMap
    ELSE LET n    == Len(entries)
             e    == entries[n]
             rest == MediaLookupOver(SubSeq(entries, 1, n - 1), byId)
         IN  IF e.type = "MEDIA" /\ Truthy(e.mediaId) /\ e.mediaId \in DOMAIN byId
             THEN MapSet(rest, e.key, byId[e.mediaId])
             ELSE rest

\* entityMap and mediaEntities are optional
buildMediaLookup(entityMap, mediaEntities) ==
    IF entityMap = None \/ mediaEntities = None THEN EmptyMap
    ELSE MediaLookupOver(entityMap[1], MediaById(mediaEntities[1]))

buildDividerSet(entityMap) ==
    IF entityMap = None THEN {}
    ELSE {entityMap[1][i].key : i \in {j \in 1..Len(entityMap[1]) :
                                          entityMap[1][j].type = "DIVIDER"}}

\* the two non-ASCII characters of the quoted-tweet line, written as escapes
EmDash == "&#8212;"
MidDot == "&#183;"

\* the heading of a quoted tweet is cut after this many characters
HeadingMax == 100

QuotedHeading(tweet) ==
    IF Truthy(tweet.title) THEN tweet.title
    ELSE IF Len(tweet.text) > HeadingMax
         THEN SubSeq(tweet.text, 1, HeadingMax) \o "..."
         ELSE tweet.text

\* the rendering of one block with the quoted post tried before the divider
RenderBlock_quoteFirst(block, mediaLookup, dividerSet, tweetLookup) ==
    LET text == OrElse(block.text, "")
        type == OrElse(block.type, "unstyled")
    IN  CASE type = "header-one"   -> "<h1>" \o text \o "</h1>\n"
          [] type = "header-two"   -> "<h2>" \o text \o "</h2>\n"
          [] type = "header-three" -> "<h3>" \o text \o "</h3>\n"
          [] type = "blockquote"   -> "<blockquote>" \o text \o "</blockquote>\n"
          [] type = "code-block"   -> "<pre><code>" \o text \o "</code></pre>\n"
          [] type = "ordered-list-item"   -> "<li>" \o text \o "</li>\n"
          [] type = "unordered-list-item" -> "<li>" \o text \o "</li>\n"
          [] type = "atomic" ->
                LET entityKey == IF block.key = Undefined THEN "undefined" ELSE block.key
                IN  IF entityKey \in DOMAIN mediaLookup /\ Truthy(mediaLookup[entityKey])
                    THEN "<p><img src=\"" \o mediaLookup[entityKey]
                         \o "\" alt=\"Article image\" style=\"max-width: 100%;\"></p>\n"
                    ELSE IF entityKey \in DOMAIN tweetLookup
                    THEN LET tweet == tweetLookup[entityKey]
                         IN  "<blockquote style=\"border-left: 3px solid #1da1f2; padding: 10px 15px; margin: 15px 0;\">\n"
                             \o "  <p><strong>" \o QuotedHeading(tweet) \o "</strong></p>\n"
                             \o "  <p><em>" \o EmDash \o " " \o tweet.author \o " (@" \o tweet.handle
                             \o ")</em> " \o MidDot \o " <a href=\"" \o tweet.url \o "\">View on X</a></p>\n"
                             \o "</blockquote>\n"
                    ELSE IF entityKey \in dividerSet THEN "<hr>\n"
                    ELSE ""
          [] OTHER -> IF Trim(text) # "" THEN "<p>" \o text \o "</p>\n" ELSE "<br/>\n"

\* the rendering of one block
RenderBlock(block, mediaLookup, dividerSet, tweetLookup) ==
    LET text == OrElse(block.text, "")
        type == OrElse(block.type, "unstyled")
    IN  CASE type = "header-one"   -> "<h1>" \o text \o "</h1>\n"
          [] type = "header-two"   -> "<h2>" \o text \o "</h2>\n"
          [] type = "header-three" -> "<h3>" \o text \o "</h3>\n"
          [] type = "blockquote"   -> "<blockquote>" \o text \o "</blockquote>\n"
          [] type = "code-block"   -> "<pre><code>" \o text \o "</code></pre>\n"
          [] type = "ordered-list-item"   -> "<li>" \o text \o "</li>\n"
          [] type = "unordered-list-item" -> "<li>" \o text \o "</li>\n"
          [] type = "atomic" ->
                LET entityKey == IF block.key = Undefined THEN "undefined" ELSE block.key
                IN  IF entityKey \in DOMAIN mediaLookup /\ Truthy(mediaLookup[entityKey])
                    THEN "<p><img src=\"" \o mediaLookup[entityKey]
                         \o "\" alt=\"Article image\" style=\"max-width: 100%;\"></p>\n"
                    ELSE IF entityKey \in dividerSet THEN "<hr>\n"
                    ELSE IF entityKey \in DOMAIN tweetLookup
                    THEN LET tweet == tweetLookup[entityKey]
                         IN  "<blockquote style=\"border-left: 3px solid #1da1f2; padding: 10px 15px; margin: 15px 0;\">\n"
                             \o "  <p><strong>" \o QuotedHeading(tweet) \o "</strong></p>\n"
                             \o "  <p><em>" \o EmDash \o " " \o tweet.author \o " (@" \o tweet.handle
                             \o ")</em> " \o MidDot \o " <a href=\"" \o tweet.url \o "\">View on X</a></p>\n"
                             \o "</blockquote>\n"
                    ELSE ""
          [] OTHER -> IF Trim(text) # "" THEN "<p>" \o text \o "</p>\n" ELSE "<br/>\n"

\* the loop over the blocks putting each rendering before the earlier ones
RECURSIVE RenderBlocks_prepending(_, _, _, _)
RenderBlocks_prepending(blocks, mediaLookup, dividerSet, tweetLookup) ==
    IF blocks = <<>> THEN ""
    ELSE RenderBlocks_prepending(Tail(blocks), mediaLookup, dividerSet, tweetLookup)
         \o RenderBlock(Head(blocks), mediaLookup, dividerSet, tweetLookup)

RECURSIVE RenderBlocks(_, _, _, _)
RenderBlocks(blocks, mediaLookup, dividerSet, tweetLookup) ==
    IF blocks = <<>> THEN ""
    ELSE RenderBlock(Head(blocks), mediaLookup, dividerSet, tweetLookup)
         \o RenderBlocks(Tail(blocks), mediaLookup, dividerSet, tweetLookup)

convertArticleBlocksToHtml(blocks, entityMap, mediaEntities, referencedTweets) ==
    RenderBlocks(blocks, buildMediaLookup(entityMap, mediaEntities),
                 buildDividerSet(entityMap), referencedTweets)

-----------------------------------------------------------------------------
(* The environment: what the network and the libraries may answer *)

\* the longest entity map of an article
MaxEntities == 3

UrlPool ==
    { "https://x.com/user/status/123",
      "https://twitter.com/jane/status/42",
      "https://x.com/user",
      "https://example.com/article",
      "https://example.com/status/5",
      "https://netflix.com/status/1",
      "https://x.com/user/status/abc" }

\* HTTP statuses of a response that is not ok
BadStatus == {404, 500}

NetworkError == "fetch failed"
JsonError == "Unexpected token < in JSON at position 0"

Author(name, handle) == Some([name |-> name, screen_name |-> handle])

Entry(key, type, tweetId, mediaId) ==
    [key |-> key, type |-> type, tweetId |-> tweetId, mediaId |-> mediaId]

EntryPool ==
    { Entry("1", "TWEET", "11", Undefined),
      Entry("2", "TWEET", "22", Undefined),
      Entry("1", "TWEET", "33", Undefined),
      Entry("4", "TWEET", Undefined, Undefined),
      Entry("5", "MEDIA", Undefined, "m5") }

\* the sequences of at most n elements of S that list no element twice
RECURSIVE SeqsUpTo(_, _)
SeqsUpTo(S, n) ==
    IF n = 0 THEN {<<>>}
    ELSE LET shorter == SeqsUpTo(S, n - 1)
             longest == {q \in shorter : Len(q) = n - 1}
             fresh   == {p \in longest \X S : \A i \in DOMAIN p[1] : p[1][i] # p[2]}
         IN  shorter \cup {Append(p[1], p[2]) : p \in fresh}

\* an entity map is absent, or lists each of its entities once
EntityMapPool == {None} \cup {Some(q) : q \in SeqsUpTo(EntryPool, MaxEntities)}

Block(type, text, key) == [type |-> type, text |-> text, key |-> key]

\* the blocks of an article that refers to every entity key of EntryPool
ArticleBlocks ==
    <<Block("header-one", "Heading", Undefined),
      Block("atomic", " ", "1"),
      Block("atomic", " ", "2"),
      Block("atomic", " ", "5"),
      Block(Undefined, "", Undefined)>>

BlocksPool ==
    { <<>>,
      <<Block("atomic", " ", "9")>>,
      <<Block("unstyled", "Paragraph text", Undefined)>> }

MediaEntitiesPool ==
    { Some(<<[media_id |-> "m5", original_img_url |-> "https://pbs.twimg.com/media/a.png"]>>) }

Tweet(author, text, photos, quote, article, tweetUrl) ==
    [author |-> author, text |-> text, photos |-> photos, quote |-> quote,
     article |-> article, url |-> tweetUrl]

Article(title, blocks, entityMap, mediaEntities, cover) ==
    Some([title |-> title, blocks |-> blocks, entityMap |-> entityMap,
          mediaEntities |-> mediaEntities, cover |-> cover])

Quote == Some([author |-> Author("Bob", "bob"), text |-> "quoted"])

ShortTweets ==
    { Tweet(Author("John", "john"), "line1\nline2", <<>>, None, None, Undefined),
      Tweet(None, "hello", <<"https://pbs.twimg.com/p.jpg">>, Quote, None, Undefined),
      Tweet(Author("John", "john"), " \n\t ", <<"https://pbs.twimg.com/p.jpg">>, Quote, None, Undefined),
      Tweet(Author("John", "john"), "", <<>>, Quote, None, Undefined),
      Tweet(Author("", "john"), Undefined, <<"https://pbs.twimg.com/p.jpg">>, None, None, Undefined),
      \* an author without a display name
      Tweet(Author("", "jo"), "hi", <<>>, None, None, Undefined),
      \* an article object without a block list is a short post
      Tweet(Author("John", "john"), "text", <<>>, None,
            Article("T", None, None, None, Undefined), Undefined) }

ArticleTweets ==
    { Tweet(Author("John", "john"), Undefined, <<>>, None,
            Article(Undefined, Some(ArticleBlocks), em, me, Undefined), Undefined) :
        em \in EntityMapPool, me \in MediaEntitiesPool }
    \cup
    { Tweet(Author("John", "john"), "teaser", <<>>, None,
            Article("My Article", Some(b), None, None, cover), Undefined) :
        b \in BlocksPool, cover \in {Undefined, "https://img.com/cover.jpg"} }
    \cup
    { Tweet(Author(Undefined, "jo"), "teaser", <<>>, None,
            Article("My Article", Some(<<Block("unstyled", "Paragraph text", Undefined)>>),
                    None, None, Undefined), Undefined) }

ApiData(code, message, tweet) == [code |-> code, message |-> message, tweet |-> tweet]

\* bodies of the primary API response
DataPool ==
    { ApiData(404, "Tweet not found", None),
      ApiData(404, Undefined, None),
      ApiData(200, Undefined, None),
      ApiData(200, "", None) }
    \cup {ApiData(200, Undefined, Some(t)) : t \in ShortTweets \cup ArticleTweets}

\* bodies of the response of one quoted-tweet sub-fetch
SubDataPool ==
    { ApiData(404, "Tweet not found", None),
      ApiData(200, Undefined, None),
      ApiData(200, Undefined,
              Some(Tweet(Author("Ann", "ann"), "a quoted tweet", <<>>, None, None,
                         "https://x.com/ann/status/11"))),
      ApiData(200, Undefined,
              Some(Tweet(Author("Bo", "bo"), "another tweet", <<>>, None, None,
                         Undefined))) }

\* what Readability.parse() may return
ReadabilityArticle(title, content) ==
    Some([title |-> title, content |-> content, textContent |-> content,
          byline |-> Undefined, siteName |-> Undefined])

\* content.length below this is rejected by extractArticle
MinContentLength == 100

ReadabilityPool ==
    { None,
      ReadabilityArticle("Test", Undefined),
      ReadabilityArticle("Test", ""),
      ReadabilityArticle("Test", "short"),
      ReadabilityArticle("Test", Repeat("x", MinContentLength - 1)),
      ReadabilityArticle("My Article", Repeat("x", MinContentLength)),
      ReadabilityArticle(Undefined, Repeat("x", MinContentLength + 1)) }

\* a fetch either rejects (failed) or resolves with a response
Response(failed, ok, status) == [failed |-> failed, ok |-> ok, status |-> status]

ResponsePool ==
    {Response(TRUE, FALSE, 0), Response(FALSE, TRUE, 200)}
    \cup {Response(FALSE, FALSE, st) : st \in BadStatus}

\* the settlements of a quoted-tweet sub-fetch
SubResponsePool ==
    {Response(TRUE, FALSE, 0), Response(FALSE, TRUE, 200), Response(FALSE, FALSE, 500)}

-----------------------------------------------------------------------------
(* Promises and documents *)

Pending == [state |-> "pending", value |-> None, error |-> ""]
Fulfilled(doc) == [state |-> "fulfilled", value |-> Some(doc), error |-> ""]
Rejected(message) == [state |-> "rejected", value |-> None, error |-> message]

Doc(title, content, textContent, byline, siteName) ==
    [title |-> title, content |-> content, textContent |-> textContent,
     byline |-> byline, siteName |-> siteName]

-----------------------------------------------------------------------------
(* twitter.js: fetchReferencedTweets *)

\* entityMap.filter(entry => entry.value?.type === 'TWEET')
TweetEntries(entityMap) ==
    IF entityMap = None THEN <<>>
    ELSE SelectSeq(entityMap[1], LAMBDA e : e.type = "TWEET")

SubUrl(tweetId) == "https://api.fxtwitter.com/i/status/" \o tweetId

\* One task of the fan-out.  st and value are the promise of the callback;
\* resp and body record what the network answered to this task: resp is the
\* settlement of its fetch, body is <<>> until response.json() settles, then
\* <<None>> for text that is not JSON and <<Some(d)>> for the payload d.
Task(st, value, resp, body) == [st |-> st, value |-> value, resp |-> resp, body |-> body]

\* The callback of tweetEntries.map runs up to its first await: an entry
\* without a tweetId has returned null, every other has its fetch in flight.
StartTask(entry) ==
    IF Truthy(entry.tweetId) THEN Task("fetch", None, None, <<>>)
    ELSE Task("fulfilled", None, None, <<>>)

StartTasks(entries) == [i \in 1..Len(entries) |-> StartTask(entries[i])]

\* the requests the map issues, in entry order
RECURSIVE SubRequests(_)
SubRequests(entries) ==
    IF entries = <<>> THEN <<>>
    ELSE (IF Truthy(Head(entries).tweetId) THEN <<SubUrl(Head(entries).tweetId)>> ELSE <<>>)
         \o SubRequests(Tail(entries))

\* after `await fetch(...)`
AfterSubFetch(r) ==
    IF r.failed THEN Task("rejected", None, Some(r), <<>>)
    ELSE IF ~r.ok THEN Task("fulfilled", None, Some(r), <<>>)
    ELSE Task("json", None, Some(r), <<>>)

Summary(entry, tweet) ==
    [key    |-> entry.key,
     author |-> IF tweet.author = None THEN "Unknown"
                ELSE OrElse(tweet.author[1].name, "Unknown"),
     handle |-> IF tweet.author = None THEN ""
                ELSE OrElse(tweet.author[1].screen_name, ""),
     text   |-> OrElse(tweet.text, ""),
     title  |-> IF tweet.article = None THEN Undefined ELSE tweet.article[1].title,
     url    |-> OrElse(tweet.url, "https://x.com/i/status/" \o entry.tweetId)]

\* after `await response.json()`; body is None when the text is not JSON
AfterSubJson(entry, r, body) ==
    IF body = None THEN Task("rejected", None, r, <<body>>)
    ELSE IF body[1].code # 200 \/ body[1].tweet = None
    THEN Task("fulfilled", None, r, <<body>>)
    ELSE Task("fulfilled", Some(Summary(entry, body[1].tweet[1])), r, <<body>>)

Settled(task) == task.st \in {"fulfilled", "rejected"}

\* a variant that, like Promise.all, also resolves at the first rejection
AllOrFirstRejection(tasks) ==
    \/ \A i \in DOMAIN tasks : tasks[i].st \in {"fulfilled", "rejected"}
    \/ \E i \in DOMAIN tasks : tasks[i].st = "rejected"

\* Promise.allSettled(...) has resolved
AllSettled(tasks) == \A i \in DOMAIN tasks : Settled(tasks[i])

\* a variant of the loop that stops at the first result that is not usable
RECURSIVE BuildLookupUntilFailure(_)
BuildLookupUntilFailure(tasks) ==
    IF tasks = <<>> THEN EmptyMap
    ELSE LET n    == Len(tasks)
             bad  == {i \in 1..n : ~(tasks[i].st = "fulfilled" /\ tasks[i].value # None)}
             t    == tasks[n]
         IN  IF bad # {}
             THEN BuildLookupUntilFailure(SubSeq(tasks, 1, (CHOOSE i \in bad : \A j \in bad : i <= j) - 1))
             ELSE MapSet(BuildLookupUntilFailure(SubSeq(tasks, 1, n - 1)), t.value[1].key,
                         [f \in {"author", "handle", "text", "title", "url"} |-> t.value[1][f]])

\* a variant of the loop that keeps the first summary of a key
RECURSIVE BuildLookup_keepFirst(_)
BuildLookup_keepFirst(tasks) ==
    IF tasks = <<>> THEN EmptyMap
    ELSE LET t    == tasks[1]
             rest == BuildLookup_keepFirst(Tail(tasks))
         IN  IF t.st = "fulfilled" /\ t.value # None
             THEN MapSet(rest, t.value[1].key,
                         [f \in {"author", "handle", "text", "title", "url"} |-> t.value[1][f]])
             ELSE rest

\* the loop over the results: result.status === 'fulfilled' && result.value
RECURSIVE BuildLookup(_)
BuildLookup(tasks) ==
    IF tasks = <<>> THEN EmptyMap
    ELSE LET n    == Len(tasks)
             t    == tasks[n]
             rest == BuildLookup(SubSeq(tasks, 1, n - 1))
         IN  IF t.st = "fulfilled" /\ t.value # None
             THEN MapSet(rest, t.value[1].key,
                         [f \in {"author", "handle", "text", "title", "url"} |-> t.value[1][f]])
             ELSE rest

-----------------------------------------------------------------------------
(* twitter.js: extractTweet *)

ApiUrl(m) == "https://api.fxtwitter.com/" \o m.username \o "/status/" \o m.tweetId

\* the display name, else the handle of the API, else the handle of the URL
AuthorName_handleFirst(tweet, username) ==
    IF tweet.author = None THEN username
    ELSE OrElse(tweet.author[1].name, OrElse(tweet.author[1].screen_name, username))

\* tweet.author?.name || username
AuthorName(tweet, username) ==
    IF tweet.author = None THEN username ELSE OrElse(tweet.author[1].name, username)

\* tweet.author?.screen_name || username
AuthorHandle(tweet, username) ==
    IF tweet.author = None THEN username ELSE OrElse(tweet.author[1].screen_name, username)

\* tweet.article && tweet.article.content && tweet.article.content.blocks
IsArticle(tweet) == tweet.article # None /\ tweet.article[1].blocks # None

\* blocks.map(b => b.text || '').filter(t => t.trim())
RECURSIVE BlockTexts(_)
BlockTexts(blocks) ==
    IF blocks = <<>> THEN <<>>
    ELSE (IF Trim(OrElse(Head(blocks).text, "")) # "" THEN <<Head(blocks).text>> ELSE <<>>)
         \o BlockTexts(Tail(blocks))

CoverHtml(article) ==
    IF Truthy(article.cover)
    THEN "<p><img src=\"" \o article.cover
         \o "\" alt=\"Cover image\" style=\"max-width: 100%;\"></p>\n"
    ELSE ""

\* the article branch taking the title of the article as it is given
ArticleDoc_titleAsGiven(tweet, username, referencedTweets) ==
    LET article == tweet.article[1]
        blocks  == article.blocks[1]
    IN  Doc(article.title,
            CoverHtml(article)
              \o convertArticleBlocksToHtml(blocks, article.entityMap,
                                            article.mediaEntities, referencedTweets),
            Join(BlockTexts(blocks), "\n\n"),
            AuthorName(tweet, username),
            "Twitter/X")

\* the document of the article branch, once the referenced tweets are known
ArticleDoc(tweet, username, referencedTweets) ==
    LET article == tweet.article[1]
        blocks  == article.blocks[1]
    IN  Doc(OrElse(article.title, "Article by @" \o AuthorHandle(tweet, username)),
            CoverHtml(article)
              \o convertArticleBlocksToHtml(blocks, article.entityMap,
                                            article.mediaEntities, referencedTweets),
            Join(BlockTexts(blocks), "\n\n"),
            AuthorName(tweet, username),
            "Twitter/X")

RECURSIVE WrapLines(_)
WrapLines(lines) ==
    IF lines = <<>> THEN <<>>
    ELSE <<"<p>" \o (IF Head(lines) = "" THEN "&nbsp;" ELSE Head(lines)) \o "</p>">>
         \o WrapLines(Tail(lines))

RECURSIVE PhotosHtml(_)
PhotosHtml(photos) ==
    IF photos = <<>> THEN ""
    ELSE "<p><img src=\"" \o Head(photos)
         \o "\" alt=\"Tweet image\" style=\"max-width: 100%;\"></p>"
         \o PhotosHtml(Tail(photos))

MediaHtml(tweet) ==
    IF Len(tweet.photos) > 0
    THEN "<div class=\"media\">" \o PhotosHtml(tweet.photos) \o "</div>"
    ELSE ""

QuotedHtml(tweet) ==
    IF tweet.quote = None THEN ""
    ELSE LET q            == tweet.quote[1]
             quotedAuthor == IF q.author = None THEN "Unknown"
                             ELSE OrElse(q.author[1].name, "Unknown")
             quotedHandle == IF q.author = None THEN ""
                             ELSE OrElse(q.author[1].screen_name, "")
         IN  "\n      <blockquote style=\"border-left: 3px solid #ccc; padding-left: 10px; margin: 10px 0;\">"
             \o "\n        <p><strong>" \o quotedAuthor \o "</strong> (@" \o quotedHandle \o "):</p>"
             \o "\n        <p>" \o OrElse(q.text, "") \o "</p>"
             \o "\n      </blockquote>\n    "

\* the document of the short-post branch; tweetText is tweet.text || ''
ShortDoc(tweet, username, tweetText) ==
    Doc("Tweet by @" \o AuthorHandle(tweet, username),
        "\n    " \o Join(WrapLines(Split(tweetText, "\n")), "\n")
          \o "\n    " \o MediaHtml(tweet) \o "\n    " \o QuotedHtml(tweet) \o "\n  ",
        tweetText,
        AuthorName(tweet, username),
        "Twitter/X")

\* `if (!response.ok) throw ...` after the primary fetch; None: go on to json()
PrimaryFetchError(r) ==
    IF r.failed THEN Some(NetworkError)
    ELSE IF ~r.ok THEN Some("API error! status: " \o ToString(r.status))
    ELSE None

\* a variant that never uses the message of the payload
PayloadErrorDefaultOnly(d) ==
    IF d.code # 200 \/ d.tweet = None
    THEN Some("Tweet not found or has been deleted")
    ELSE None

\* `if (data.code !== 200 || !data.tweet) throw ...`
PayloadError(d) ==
    IF d.code # 200 \/ d.tweet = None
    THEN Some(OrElse(d.message, "Tweet not found or has been deleted"))
    ELSE None

\* a variant that tests the text without trimming it
RegularTweetUntrimmed(tweet, username) ==
    LET tweetText == OrElse(tweet.text, "")
    IN  IF tweetText = "" THEN Rejected("Tweet has no text content")
        ELSE Fulfilled(ShortDoc(tweet, username, tweetText))

\* the short-post branch, run to its end
RegularTweet(tweet, username) ==
    LET tweetText == OrElse(tweet.text, "")
    IN  IF Trim(tweetText) = "" THEN Rejected("Tweet has no text content")
        ELSE Fulfilled(ShortDoc(tweet, username, tweetText))

-----------------------------------------------------------------------------
(* article.js: extractArticle *)

\* `if (!response.ok) throw ...` after the page fetch; None: go on to text()
PageFetchError(r) ==
    IF r.failed THEN Some(NetworkError)
    ELSE IF ~r.ok THEN Some("HTTP error! status: " \o ToString(r.status))
    ELSE None

\* a variant whose length check is off by one
FromReadabilityOffByOne(article) ==
    IF article = None \/ ~Truthy(article[1].content)
       \/ Len(article[1].content) < MinContentLength - 1
    THEN Rejected("Could not extract meaningful content from URL")
    ELSE Fulfilled(Doc(OrElse(article[1].title, "Article"), article[1].content,
                       article[1].textContent, article[1].byline, article[1].siteName))

\* the check on reader.parse() and the mapping onto the document
FromReadability(article) ==
    IF article = None \/ ~Truthy(article[1].content)
       \/ Len(article[1].content) < MinContentLength
    THEN Rejected("Could not extract meaningful content from URL")
    ELSE Fulfilled(Doc(OrElse(article[1].title, "Article"), article[1].content,
                       article[1].textContent, article[1].byline, article[1].siteName))

-----------------------------------------------------------------------------
(* next-data.js: JSON.parse *)

\* A JSON value is a record [t, v]: t is its type, v its content (the text of
\* a string or of a number literal, the sequence of an array, the function
\* from keys to values of an object).  JUndefined is what a missing property
\* reads as.
JNull == [t |-> "null", v |-> ""]
JUndefined == [t |-> "undefined", v |-> ""]
JBool(b) == [t |-> "boolean", v |-> IF b THEN "true" ELSE "false"]
JNumber(literal) == [t |-> "number", v |-> literal]
JString(text) == [t |-> "string", v |-> text]
JArray(items) == [t |-> "array", v |-> items]
JObject(members) == [t |-> "object", v |-> members]

\* the result of a parsing step: the value read and the index after it
Parsed(v, i) == [ok |-> TRUE, v |-> v, i |-> i]
ParseFailure == [ok |-> FALSE, v |-> JUndefined, i |-> 0]

\* the index of the first character at or after i that is not JSON whitespace
RECURSIVE SkipWs(_, _)
SkipWs(s, i) ==
    IF i <= Len(s) /\ CharAt(s, i) \in {" ", "\n", "\r", "\t"} THEN SkipWs(s, i + 1) ELSE i

HexDigits ==
    { "0", "1", "2", "3", "4", "5", "6", "7", "8", "9",
      "a", "b", "c", "d", "e", "f", "A", "B", "C", "D", "E", "F" }

\* whether the character at j, inside a string literal that starts at i, is
\* preceded by an odd number of backslashes
Escaped(s, i, j) ==
    (j - 1 - Greatest({k \in (i - 1)..(j - 1) : k = i - 1 \/ CharAt(s, k) # "\\"})) % 2 = 1

\* the character an escape denotes.  \b and \uXXXX name characters a TLA+
\* string cannot hold: they are written as entities.
EscapeChar(e, hex) ==
    CASE e = "n" -> "\n"
      [] e = "r" -> "\r"
      [] e = "t" -> "\t"
      [] e = "f" -> "\f"
      [] e = "b" -> "&#8;"
      [] e = "u" -> "&#x" \o hex \o ";"
      [] OTHER   -> e

\* whether the escape \e (with the four characters after it) is one of JSON
ValidEscape(e, hex) ==
    /\ e \in {"\"", "\\", "/", "n", "r", "t", "f", "b", "u"}
    /\ e = "u" => (Len(hex) = 4 /\ \A k \in 1..4 : CharAt(hex, k) \in HexDigits)

RECURSIVE Unescape(_)

\* a text followed by the text Unescape made of what comes after it
Before(text, rest) == IF rest = None THEN None ELSE Some(text \o rest[1])

\* raw from its first backslash, at b, on
UnescapeAt(raw, b, e, hex) ==
    IF ~ValidEscape(e, hex) THEN None
    ELSE Before(SubSeq(raw, 1, b - 1) \o EscapeChar(e, hex),
                Unescape(SubSeq(raw, b + (IF e = "u" THEN 6 ELSE 2), Len(raw))))

\* raw with its first backslash at b, or without one when b = 0
UnescapeFrom(raw, b) ==
    IF b = 0 THEN Some(raw)
    ELSE UnescapeAt(raw, b, CharAt(raw, b + 1), SubSeq(raw, b + 2, b + 5))

\* the text a run of string characters denotes, or None at an escape JSON
\* does not have
Unescape(raw) == UnescapeFrom(raw, IndexFrom(raw, "\\", 1))

\* the string whose characters are raw and whose closing quote is at close
StringOf(text, close) ==
    IF text = None THEN ParseFailure ELSE Parsed(JString(text[1]), close + 1)

\* the string literal whose characters start at i and whose closing quote
\* is at close (0: there is none); it holds no control character
CharsUpTo(s, i, close) ==
    IF close = 0 THEN ParseFailure
    ELSE IF \E k \in i..(close - 1) : CharAt(s, k) \in {"\n", "\r", "\t", "\f"}
    THEN ParseFailure
    ELSE StringOf(Unescape(SubSeq(s, i, close - 1)), close)

\* the string literal whose characters start at i, after the opening quote:
\* it runs to the first quote that is not escaped
ParseChars(s, i) ==
    CharsUpTo(s, i, Least({j \in i..Len(s) : CharAt(s, j) = "\"" /\ ~Escaped(s, i, j)}))

\* the number literal from i to exp - 1: j is after the sign, k after the
\* integer digits, frac after the fraction, sign after the exponent's sign
NumberOf(s, i, j, k, frac, sign, exp) ==
    IF k = j THEN ParseFailure
    ELSE IF CharAt(s, j) = "0" /\ k > j + 1 THEN ParseFailure
    ELSE IF frac = k + 1 THEN ParseFailure
    ELSE IF exp > frac /\ exp = sign THEN ParseFailure
    ELSE Parsed(JNumber(SubSeq(s, i, exp - 1)), exp)

\* ([eE][+-]?[0-9]+)? from frac on
NumberExponent(s, i, j, k, frac, sign) ==
    NumberOf(s, i, j, k, frac, sign,
             IF frac <= Len(s) /\ CharAt(s, frac) \in {"e", "E"}
             THEN DigitsEnd(s, sign) ELSE frac)

\* (\.[0-9]+)? from k on
NumberFraction(s, i, j, k, frac) ==
    NumberExponent(s, i, j, k, frac,
                   IF frac + 1 <= Len(s) /\ CharAt(s, frac + 1) \in {"+", "-"}
                   THEN frac + 2 ELSE frac + 1)

\* (0 | [1-9][0-9]*) from j on
NumberDigits(s, i, j, k) ==
    NumberFraction(s, i, j, k,
                   IF k <= Len(s) /\ CharAt(s, k) = "." THEN DigitsEnd(s, k + 1) ELSE k)

\* -? from i on
NumberSign(s, i, j) == NumberDigits(s, i, j, DigitsEnd(s, j))

\* a number literal at i: -? (0 | [1-9][0-9]*) (\.[0-9]+)? ([eE][+-]?[0-9]+)?
ParseNumber(s, i) == NumberSign(s, i, IF CharAt(s, i) = "-" THEN i + 1 ELSE i)

RECURSIVE ParseValue(_, _)
RECURSIVE ParseElements(_, _, _)
RECURSIVE ParseMembers(_, _, _)

\* after an element of an array: "]" ends it, "," goes on
ElementNext(s, items, next) ==
    IF next > Len(s) THEN ParseFailure
    ELSE IF CharAt(s, next) = "]" THEN Parsed(JArray(items), next + 1)
    ELSE IF CharAt(s, next) = "," THEN ParseElements(s, next + 1, items)
    ELSE ParseFailure

ElementEnd(s, acc, el) ==
    IF el.ok THEN ElementNext(s, Append(acc, el.v), SkipWs(s, el.i)) ELSE ParseFailure

\* the elements of an array after "[" or after a comma
ParseElements(s, i, acc) == ElementEnd(s, acc, ParseValue(s, i))

\* after a member of an object: "}" ends it, "," goes on
MemberNext(s, members, next) ==
    IF next > Len(s) THEN ParseFailure
    ELSE IF CharAt(s, next) = "}" THEN Parsed(JObject(members), next + 1)
    ELSE IF CharAt(s, next) = "," THEN ParseMembers(s, next + 1, members)
    ELSE ParseFailure

\* a repeated key keeps its last value
MemberEnd(s, acc, name, val) ==
    IF val.ok THEN MemberNext(s, MapSet(acc, name, val.v), SkipWs(s, val.i))
    ELSE ParseFailure

MemberValue(s, acc, name, colon) ==
    IF colon <= Len(s) /\ CharAt(s, colon) = ":"
    THEN MemberEnd(s, acc, name, ParseValue(s, colon + 1))
    ELSE ParseFailure

MemberColon(s, acc, key) ==
    IF key.ok THEN MemberValue(s, acc, key.v.v, SkipWs(s, key.i)) ELSE ParseFailure

MemberKey(s, acc, k) ==
    IF k <= Len(s) /\ CharAt(s, k) = "\"" THEN MemberColon(s, acc, ParseChars(s, k + 1))
    ELSE ParseFailure

\* the members of an object after "{" or after a comma
ParseMembers(s, i, acc) == MemberKey(s, acc, SkipWs(s, i))

\* "[" at j, and the first index after the whitespace that follows it
ArrayAt(s, j, first) ==
    IF first <= Len(s) /\ CharAt(s, first) = "]" THEN Parsed(JArray(<<>>), first + 1)
    ELSE ParseElements(s, j + 1, <<>>)

\* "{" at j, and the first index after the whitespace that follows it
ObjectAt(s, j, first) ==
    IF first <= Len(s) /\ CharAt(s, first) = "}" THEN Parsed(JObject(EmptyMap), first + 1)
    ELSE ParseMembers(s, j + 1, EmptyMap)

\* the JSON value that starts at j with the character c
ValueAt(s, j, c) ==
    IF j > Len(s) THEN ParseFailure
    ELSE IF c = "\"" THEN ParseChars(s, j + 1)
    ELSE IF StartsAt(s, "null", j) THEN Parsed(JNull, j + 4)
    ELSE IF StartsAt(s, "true", j) THEN Parsed(JBool(TRUE), j + 4)
    ELSE IF StartsAt(s, "false", j) THEN Parsed(JBool(FALSE), j + 5)
    ELSE IF c = "-" \/ IsDigit(c) THEN ParseNumber(s, j)
    ELSE IF c = "[" THEN ArrayAt(s, j, SkipWs(s, j + 1))
    ELSE IF c = "{" THEN ObjectAt(s, j, SkipWs(s, j + 1))
    ELSE ParseFailure

ValueFrom(s, j) == ValueAt(s, j, CharAt(s, j))

\* the JSON value that starts at or after i
ParseValue(s, i) == ValueFrom(s, SkipWs(s, i))

\* the whole text is one value and whitespace
WholeText(text, r) ==
    IF r.ok /\ SkipWs(text, r.i) > Len(text) THEN Some(r.v) ELSE None

\* JSON.parse(text): Some(value), or None when it throws a SyntaxError
JsonParse(text) == WholeText(text, ParseValue(text, 1))

-----------------------------------------------------------------------------
(* next-data.js: the regular expressions *)

\* the characters "." does not match and after which ^ matches under the m flag
IsLineEnd(c) == c \in {"\n", "\r"}

HasLineEnd(s) == \E i \in 1..Len(s) : IsLineEnd(CharAt(s, i))

\* the result of trying a pattern at one index: whether it matches, the index
\* after the match, and the text the match is replaced by
NoMatch == [ok |-> FALSE, end |-> 0, out |-> ""]
Match(end, out) == [ok |-> TRUE, end |-> end, out |-> out]

\* "[" at i, "]" at close, and ")" at paren: the text between the brackets
\* has at least minText characters, "(" follows "]", and the target between
\* the parentheses is not empty
BracketPair(s, i, minText, close, paren) ==
    IF /\ CharAt(s, i) = "["
       /\ close # 0
       /\ close - (i + 1) >= minText
       /\ CharAt(s, close + 1) = "("
       /\ paren > close + 2
    THEN [ok |-> TRUE, end |-> paren + 1, text |-> SubSeq(s, i + 1, close - 1),
          target |-> SubSeq(s, close + 2, paren - 1)]
    ELSE [ok |-> FALSE, end |-> 0, text |-> "", target |-> ""]

BracketClose(s, i, minText, close) ==
    BracketPair(s, i, minText, close, IndexFrom(s, ")", close + 2))

\* \[([^\]]{minText,})\]\(([^)]+)\) at i: the bracketed text runs to the first
\* "]" and the parenthesised target to the first ")"
BracketPairAt(s, i, minText) == BracketClose(s, i, minText, IndexFrom(s, "]", i + 1))

ImageOf(m) ==
    IF m.ok THEN Match(m.end, "<img src=\"" \o m.target \o "\" alt=\"" \o m.text \o "\">")
    ELSE NoMatch

\* /!\[([^\]]*)\]\(([^)]+)\)/ -> <img src="$2" alt="$1">
ImageAt(s, i) ==
    IF CharAt(s, i) = "!" THEN ImageOf(BracketPairAt(s, i + 1, 0)) ELSE NoMatch

LinkOf(m) ==
    IF m.ok THEN Match(m.end, "<a href=\"" \o m.target \o "\">" \o m.text \o "</a>")
    ELSE NoMatch

\* /\[([^\]]+)\]\(([^)]+)\)/ -> <a href="$2">$1</a>
LinkAt(s, i) == LinkOf(BracketPairAt(s, i, 1))

\* the opening mark at i, the text from from on, the closing mark at close
Delimited(s, i, mark, tag, from, close) ==
    IF /\ StartsAt(s, mark, i)
       /\ close # 0
       /\ ~HasLineEnd(SubSeq(s, from, close - 1))
    THEN Match(close + Len(mark),
               "<" \o tag \o ">" \o SubSeq(s, from, close - 1) \o "</" \o tag \o ">")
    ELSE NoMatch

\* /mark(.+?)mark/ -> <tag>$1</tag>: the shortest run of at least one
\* character, none a line end, between two marks
DelimitedAt(s, i, mark, tag) ==
    Delimited(s, i, mark, tag, i + Len(mark), IndexFrom(s, mark, i + Len(mark) + 1))

\* the backquote, which a TLA+ string cannot hold, is written as its entity
Backtick == "&#96;"

Code(s, i, from, close) ==
    IF StartsAt(s, Backtick, i) /\ close > from
    THEN Match(close + Len(Backtick), "<code>" \o SubSeq(s, from, close - 1) \o "</code>")
    ELSE NoMatch

\* /`([^`]+)`/ -> <code>$1</code>
CodeAt(s, i) == Code(s, i, i + Len(Backtick), IndexFrom(s, Backtick, i + Len(Backtick)))

\* /^> /m -> the empty string
QuoteMarkerAt(s, i) ==
    IF StartsAt(s, "> ", i) /\ (i = 1 \/ IsLineEnd(CharAt(s, i - 1)))
    THEN Match(i + 2, "")
    ELSE NoMatch

\* the attribute at i, the "/" that opens its value at slash, the closing
\* quote at quote
RootRelative(s, i, name, origin, slash, quote) ==
    IF StartsAt(s, name \o "=\"/", i) /\ quote > slash + 1
    THEN Match(quote + 1, name \o "=\"" \o origin \o SubSeq(s, slash, quote - 1) \o "\"")
    ELSE NoMatch

\* /name="(\/[^"]+)"/ -> name="${origin}$1"
RootRelativeAt(s, i, name, origin) ==
    RootRelative(s, i, name, origin, i + Len(name) + 2,
                 IndexFrom(s, "\"", i + Len(name) + 3))

-----------------------------------------------------------------------------
(* utils.js: the regular expressions of the markup repair *)

\* the character at index i, or "" outside the string
Peek(s, i) == IF i >= 1 /\ i <= Len(s) THEN SubSeq(s, i, i) ELSE ""

UpperCase == "ABCDEFGHIJKLMNOPQRSTUVWXYZ"
LowerCase == "abcdefghijklmnopqrstuvwxyz"

\* the letter c is compared as under the i flag
LowerChar(c) ==
    IF \E k \in 1..26 : CharAt(UpperCase, k) = c
    THEN CharAt(LowerCase, CHOOSE k \in 1..26 : CharAt(UpperCase, k) = c)
    ELSE c

\* \w
IsWordChar(c) ==
    \/ IsDigit(c)
    \/ c = "_"
    \/ \E k \in 1..26 : CharAt(LowerCase, k) = LowerChar(c)

\* the lower-case literal sub matches at i under the i flag
StartsAtI(s, sub, i) ==
    /\ i >= 1
    /\ i + Len(sub) - 1 <= Len(s)
    /\ \A k \in 1..Len(sub) : LowerChar(CharAt(s, i + k - 1)) = CharAt(sub, k)

IndexFromI(s, sub, from) ==
    Least({i \in from..(Len(s) - Len(sub) + 1) : StartsAtI(s, sub, i)})

\* the last index of the run [^>]* that starts at i, gt being the first ">"
\* at or after i (0: there is none)
TagRunEnd(s, gt) == IF gt = 0 THEN Len(s) ELSE gt - 1

\* `<p><a href="https://www.youtube.com/watch?v=${videoId}">${title} (YouTube)</a></p>`
LinkParagraph(videoId, title) ==
    "<p><a href=\"https://www.youtube.com/watch?v=" \o videoId \o "\">" \o title
        \o " (YouTube)</a></p>"

\* titleMatch ? titleMatch[1] : 'YouTube Video', the match being at t
TitleIn(match, t) ==
    IF t = 0 THEN "YouTube Video"
    ELSE SubSeq(match, t + 8, IndexFrom(match, "\"", t + 8) - 1)

\* match.match(/\stitle="([^"]*)"/i)
TitleOf(match) ==
    TitleIn(match, Least({t \in 1..Len(match) :
                            /\ IsSpace(CharAt(match, t))
                            /\ StartsAtI(match, "title=\"", t + 1)
                            /\ IndexFrom(match, "\"", t + 8) # 0}))

NoEmbed == [ok |-> FALSE, end |-> 0, videoId |-> ""]

\* ([^"?]+)[^"]*"[^>]*><\/iframe> from u on: the identifier runs to idEnd, the
\* address to the quote, the tag to gt
EmbedClosed(s, u, idEnd, quote, gt) ==
    IF idEnd > u /\ quote # 0 /\ gt # 0 /\ StartsAtI(s, "</iframe>", gt + 1)
    THEN [ok |-> TRUE, end |-> gt + 10, videoId |-> SubSeq(s, u, idEnd - 1)]
    ELSE NoEmbed

EmbedQuoted(s, u, idEnd, quote) ==
    EmbedClosed(s, u, idEnd, quote, IF quote = 0 THEN 0 ELSE IndexFrom(s, ">", quote + 1))

EmbedId(s, u, idEnd) ==
    EmbedQuoted(s, u, idEnd, IF idEnd = 0 THEN 0 ELSE IndexFrom(s, "\"", idEnd))

EmbedFrom(s, u) ==
    IF u = 0 THEN NoEmbed
    ELSE EmbedId(s, u, Least({j \in u..Len(s) : CharAt(s, j) \in {"\"", "?"}}))

\* (?:www\.)?youtube\.com\/embed\/ at i: the index after it, or 0
EmbedHost(s, i) ==
    IF StartsAtI(s, "www.youtube.com/embed/", i) THEN i + 22
    ELSE IF StartsAtI(s, "youtube.com/embed/", i) THEN i + 18
    ELSE 0

\* https?:\/\/ and the host at i: the index after them, or 0
EmbedUrl(s, i) ==
    IF StartsAtI(s, "https://", i) THEN EmbedHost(s, i + 8)
    ELSE IF StartsAtI(s, "http://", i) THEN EmbedHost(s, i + 7)
    ELSE 0

\* \ssrc="https?:\/\/(?:www\.)?youtube\.com\/embed\/ ... at k
EmbedSrc(s, k) ==
    IF IsSpace(CharAt(s, k)) /\ StartsAtI(s, "src=\"", k + 1)
    THEN EmbedFrom(s, EmbedUrl(s, k + 6))
    ELSE NoEmbed

\* the match that starts at p, m being what follows its src attribute
EmbedLink(s, p, m) ==
    Match(m.end, LinkParagraph(m.videoId, TitleOf(SubSeq(s, p, m.end - 1))))

EmbedPick(s, p, k) == IF k = 0 THEN NoMatch ELSE EmbedLink(s, p, EmbedSrc(s, k))

\* <iframe[^>]*\ssrc=...: [^>]* is greedy, so the last src attribute of the
\* tag that lets the rest match is the one taken
EmbedTagAt(s, p, last) ==
    EmbedPick(s, p, Greatest({k \in (p + 7)..last : EmbedSrc(s, k).ok}))

\* /<iframe[^>]*\ssrc="https?:\/\/(?:www\.)?youtube\.com\/embed\/([^"?]+)[^"]*"[^>]*><\/iframe>/gi
EmbedAt(s, p) ==
    IF StartsAtI(s, "<iframe", p)
    THEN EmbedTagAt(s, p, TagRunEnd(s, IndexFrom(s, ">", p + 7)))
    ELSE NoMatch

\* <img\b at a
ImgAt(s, a) == StartsAtI(s, "<img", a) /\ ~IsWordChar(Peek(s, a + 4))

\* [^>]*?\ssrc\s*= after the <img at a
ImgSrcAt(s, a, last) ==
    \E w \in (a + 4)..last :
        /\ IsSpace(CharAt(s, w))
        /\ StartsAtI(s, "src", w + 1)
        /\ \E e \in (w + 4)..Len(s) :
              /\ CharAt(s, e) = "="
              /\ \A j \in (w + 4)..(e - 1) : IsSpace(CharAt(s, j))

\* /<img\b[^>]*?\ssrc\s*=/i.test(inner)
HasImgSrc(inner_) ==
    \E a \in 1..Len(inner_) :
        ImgAt(inner_, a) /\ ImgSrcAt(inner_, a, TagRunEnd(inner_, IndexFrom(inner_, ">", a + 4)))

\* \bsrcset="([^"]+)" at c
SrcsetAt(s, c) ==
    /\ StartsAtI(s, "srcset=\"", c)
    /\ ~IsWordChar(Peek(s, c - 1))
    /\ IndexFrom(s, "\"", c + 8) > c + 8

\* (?![^>]*type="image\/webp") fails after the <source at b
WebpTyped(s, b, last) ==
    \E t \in (b + 7)..last : StartsAtI(s, "type=\"image/webp\"", t)

\* <source[^>]*\bsrcset="([^"]+)" at b, with the lookahead when skipWebp: the
\* index of the srcset attribute taken (the last one of the tag), or 0
SourceAt(s, b, skipWebp, last) ==
    IF StartsAtI(s, "<source", b) /\ (skipWebp => ~WebpTyped(s, b, last))
    THEN Greatest({c \in (b + 7)..last : SrcsetAt(s, c)})
    ELSE 0

SourceTagAt(s, b, skipWebp) ==
    SourceAt(s, b, skipWebp, TagRunEnd(s, IndexFrom(s, ">", b + 7)))

\* sourceMatch[1] of the match whose srcset attribute is at c
SourceCapture(s, c) == SubSeq(s, c + 8, IndexFrom(s, "\"", c + 8) - 1)

SourceFirst(s, skipWebp, b) ==
    IF b = 0 THEN None ELSE Some(SourceCapture(s, SourceTagAt(s, b, skipWebp)))

\* inner.match(/<source(?![^>]*type="image\/webp")[^>]*\bsrcset="([^"]+)"/i) when
\* skipWebp, inner.match(/<source[^>]*\bsrcset="([^"]+)"/i) otherwise
SourceMatch(s, skipWebp) ==
    SourceFirst(s, skipWebp, Least({b \in 1..Len(s) : SourceTagAt(s, b, skipWebp) # 0}))

\* .split(/\s+/)[0] of a trimmed string
FirstToken(t, space) == IF space = 0 THEN t ELSE SubSeq(t, 1, space - 1)

\* .split(',')[0]
FirstPart(s, comma) == IF comma = 0 THEN s ELSE SubSeq(s, 1, comma - 1)

FirstTrimmed(t) == FirstToken(t, Least({j \in 1..Len(t) : IsSpace(CharAt(t, j))}))

\* sourceMatch[1].split(',')[0].trim().split(/\s+/)[0]
FirstUrl(srcset) == FirstTrimmed(Trim(FirstPart(srcset, IndexFrom(srcset, ",", 1))))

RECURSIVE Expand(_, _, _, _, _)

Substituted(template, i, matched, before, after, text) ==
    text \o Expand(template, i, matched, before, after)

\* the "$" at d of a replacement string: $$ is "$", $& the matched text, $`
\* the text before the match, $' the text after it; the pattern has no group,
\* so any other "$" stands for itself
ExpandAt(template, d, matched, before, after) ==
    IF StartsAt(template, "$$", d)
    THEN Substituted(template, d + 2, matched, before, after, "$")
    ELSE IF StartsAt(template, "$&", d)
    THEN Substituted(template, d + 2, matched, before, after, matched)
    ELSE IF StartsAt(template, "$" \o Backtick, d)
    THEN Substituted(template, d + 1 + Len(Backtick), matched, before, after, before)
    ELSE IF StartsAt(template, "$'", d)
    THEN Substituted(template, d + 2, matched, before, after, after)
    ELSE Substituted(template, d + 1, matched, before, after, "$")

ExpandTo(template, i, matched, before, after, d) ==
    IF d = 0 THEN SubSeq(template, i, Len(template))
    ELSE SubSeq(template, i, d - 1) \o ExpandAt(template, d, matched, before, after)

\* the replacement string of String.prototype.replace from index i on
Expand(template, i, matched, before, after) ==
    ExpandTo(template, i, matched, before, after, IndexFrom(template, "$", i))

\* match.replace(/<img\b/i, template), the first <img being at a
FixedImg(match, template, a) ==
    IF a = 0 THEN match
    ELSE SubSeq(match, 1, a - 1)
             \o Expand(template, 1, SubSeq(match, a, a + 3), SubSeq(match, 1, a - 1),
                       SubSeq(match, a + 4, Len(match)))
             \o SubSeq(match, a + 4, Len(match))

\* match.replace(/<img\b/i, `<img src="${firstUrl}"`)
FixImg(match, firstUrl) ==
    FixedImg(match, "<img src=\"" \o firstUrl \o "\"",
             Least({a \in 1..Len(match) : ImgAt(match, a)}))

\* if (!firstUrl) return match
FixWithUrl(match, firstUrl) == IF firstUrl = "" THEN match ELSE FixImg(match, firstUrl)

\* if (!sourceMatch) return match
FixFromMatch(match, sourceMatch) ==
    IF sourceMatch = None THEN match ELSE FixWithUrl(match, FirstUrl(sourceMatch[1]))

\* the first pattern's match, or else the second's
FixFromSource(match, inner_, preferred) ==
    FixFromMatch(match, IF preferred # None THEN preferred ELSE SourceMatch(inner_, FALSE))

\* the replacer of fixPictureSources
FixedPicture(match, inner_) ==
    IF HasImgSrc(inner_) THEN match
    ELSE FixFromSource(match, inner_, SourceMatch(inner_, TRUE))

PictureClosed(s, p, close) ==
    IF close = 0 THEN NoMatch
    ELSE Match(close + 10,
               FixedPicture(SubSeq(s, p, close + 9), SubSeq(s, p + 9, close - 1)))

\* /<picture>([\s\S]*?)<\/picture>/gi
PictureAt(s, p) ==
    IF StartsAtI(s, "<picture>", p)
    THEN PictureClosed(s, p, IndexFromI(s, "</picture>", p + 9))
    ELSE NoMatch

-----------------------------------------------------------------------------
(* String.prototype.replace with the g flag *)

\* the pattern named by kind, tried at index i
MatchAt(kind, s, i, arg) ==
    CASE kind = "image"  -> ImageAt(s, i)
      [] kind = "link"   -> LinkAt(s, i)
      [] kind = "bold"   -> DelimitedAt(s, i, "**", "strong")
      [] kind = "italic" -> DelimitedAt(s, i, "*", "em")
      [] kind = "code"   -> CodeAt(s, i)
      [] kind = "quote"  -> QuoteMarkerAt(s, i)
      [] kind = "attr"   -> RootRelativeAt(s, i, arg[1], arg[2])
      [] kind = "embed"  -> EmbedAt(s, i)
      [] kind = "picture" -> PictureAt(s, i)

RECURSIVE ReplaceFrom(_, _, _, _)

\* the replacement of the match m, then the rest of s
Spliced(kind, s, arg, m) == m.out \o ReplaceFrom(kind, s, m.end, arg)

\* s from i on, its first match being at first (0: there is none)
ReplaceAt(kind, s, i, arg, first) ==
    IF first = 0 THEN SubSeq(s, i, Len(s))
    ELSE SubSeq(s, i, first - 1) \o Spliced(kind, s, arg, MatchAt(kind, s, first, arg))

\* s.replace(/pattern/g, replacement) from index i on: matches are found left
\* to right and do not overlap
ReplaceFrom(kind, s, i, arg) ==
    ReplaceAt(kind, s, i, arg, Least({j \in i..Len(s) : MatchAt(kind, s, j, arg).ok}))

ReplaceAll(kind, s, arg) == ReplaceFrom(kind, s, 1, arg)

-----------------------------------------------------------------------------
(* utils.js: replaceYouTubeEmbeds, fixPictureSources, escapeYaml,             *)
(* sanitizeFilename                                                        *)

\* the replace without the g flag: the first match only
ReplacedOnce(kind, s, first) ==
    IF first = 0 THEN s
    ELSE SubSeq(s, 1, first - 1) \o MatchAt(kind, s, first, <<>>).out
             \o SubSeq(s, MatchAt(kind, s, first, <<>>).end, Len(s))

replaceYouTubeEmbeds_once(html_) ==
    ReplacedOnce("embed", html_,
                 Least({j \in 1..Len(html_) : MatchAt("embed", html_, j, <<>>).ok}))

replaceYouTubeEmbeds(html_) == ReplaceAll("embed", html_, <<>>)

fixPictureSources(html_) == ReplaceAll("picture", html_, <<>>)

RECURSIVE ReplaceCharFrom(_, _, _, _)

ReplaceCharAt(s, c, with, i, first) ==
    IF first = 0 THEN SubSeq(s, i, Len(s))
    ELSE SubSeq(s, i, first - 1) \o with \o ReplaceCharFrom(s, c, with, first + 1)

\* s.replace(/c/g, with) from index i on, c one character
ReplaceCharFrom(s, c, with, i) == ReplaceCharAt(s, c, with, i, IndexFrom(s, c, i))

ReplaceChar(s, c, with) == ReplaceCharFrom(s, c, with, 1)

\* .replace(/\t/g, ' ') and the closing template literal
EscapedTabs(text) == "\"" \o ReplaceChar(text, "\t", " ") \o "\""

\* .replace(/\n/g, ' ').replace(/\r/g, '')
EscapedLines(text) == EscapedTabs(ReplaceChar(ReplaceChar(text, "\n", " "), "\r", ""))

\* the order of the first two replaces taken the other way round
escapeYaml_quotesFirst(text) ==
    IF text = Undefined \/ text = Null \/ text = "" THEN "\"\""
    ELSE EscapedLines(ReplaceChar(ReplaceChar(text, "\"", "\\\""), "\\", "\\\\"))

\* escapeYaml(text): if (!text) return '""', then the five replaces
escapeYaml(text) ==
    IF text = Undefined \/ text = Null \/ text = "" THEN "\"\""
    ELSE EscapedLines(ReplaceChar(ReplaceChar(text, "\\", "\\\\"), "\"", "\\\""))

\* the characters of [<>:"/\\|?*\x00-\x1F] a string can hold here: of the
\* control characters, the tab, the line feed, the form feed and the
\* carriage return
IsUnsafe(c) == c \in {"<", ">", ":", "\"", "/", "\\", "|", "?", "*", "\t", "\n", "\f", "\r"}

RECURSIVE RemoveUnsafeFrom(_, _)

RemoveUnsafeAt(s, i, first) ==
    IF first = 0 THEN SubSeq(s, i, Len(s))
    ELSE SubSeq(s, i, first - 1) \o RemoveUnsafeFrom(s, first + 1)

\* .replace(/[<>:"/\\|?*\x00-\x1F]/g, '') from index i on
RemoveUnsafeFrom(s, i) ==
    RemoveUnsafeAt(s, i, Least({j \in i..Len(s) : IsUnsafe(CharAt(s, j))}))

RECURSIVE UnderscoreFrom(_, _)

\* the run of whitespace that starts at first and ends before next (0: it
\* ends the string)
UnderscoreRun(s, i, first, next) ==
    SubSeq(s, i, first - 1) \o "_"
        \o (IF next = 0 THEN "" ELSE UnderscoreFrom(s, next))

UnderscoreAt(s, i, first) ==
    IF first = 0 THEN SubSeq(s, i, Len(s))
    ELSE UnderscoreRun(s, i, first,
                       Least({j \in first..Len(s) : ~IsSpace(CharAt(s, j))}))

\* .replace(/\s+/g, '_') from index i on
UnderscoreFrom(s, i) ==
    UnderscoreAt(s, i, Least({j \in i..Len(s) : IsSpace(CharAt(s, j))}))

\* .substring(0, n)
Substring0(s, n) == IF Len(s) <= n THEN s ELSE SubSeq(s, 1, n)

\* the length sanitizeFilename cuts a name to
MaxFilenameLength == 100

\* the sanitizer without the cut
sanitizeFilename_uncut(name) == UnderscoreFrom(RemoveUnsafeFrom(name, 1), 1)

\* sanitizeFilename(name)
sanitizeFilename(name) ==
    Substring0(UnderscoreFrom(RemoveUnsafeFrom(name, 1), 1), MaxFilenameLength)

-----------------------------------------------------------------------------
(* next-data.js: markdownToHtml, convertInline, resolveUrls *)

convertInline(text) ==
    LET images == ReplaceAll("image", text, <<>>)
        links  == ReplaceAll("link", images, <<>>)
        bold   == ReplaceAll("bold", links, <<>>)
        italic == ReplaceAll("italic", bold, <<>>)
    IN  ReplaceAll("code", italic, <<>>)

\* the index after the run of character c that starts at i
RECURSIVE RunEnd(_, _, _)
RunEnd(s, i, c) == IF i <= Len(s) /\ CharAt(s, i) = c THEN RunEnd(s, i + 1, c) ELSE i

\* the index after the run of whitespace that starts at i
RECURSIVE SpacesEnd(_, _)
SpacesEnd(s, i) == IF i <= Len(s) /\ IsSpace(CharAt(s, i)) THEN SpacesEnd(s, i + 1) ELSE i

\* s.split(/\n{2,}/) from index start on
RECURSIVE SplitBlocks(_, _)
SplitBlocks(s, start) ==
    LET i == IndexFrom(s, "\n\n", start)
    IN  IF i = 0 THEN <<SubSeq(s, start, Len(s))>>
        ELSE <<SubSeq(s, start, i - 1)>> \o SplitBlocks(s, RunEnd(s, i, "\n"))

\* trimmed.match(/^(#{1,6})\s+(.+)$/): None, or the level and the heading text
HeadingMatch(trimmed) ==
    LET level == RunEnd(trimmed, 1, "#") - 1
        from  == SpacesEnd(trimmed, level + 1)
        text  == SubSeq(trimmed, from, Len(trimmed))
    IN  IF /\ level \in 1..6
           /\ from > level + 1
           /\ text # ""
           /\ ~HasLineEnd(text)
        THEN Some([level |-> level, text |-> text])
        ELSE None

\* trimmed.match(/^!\[([^\]]*)\]\(([^)]+)\)$/)
ImageOnlyMatch(trimmed) ==
    LET m == BracketPairAt(trimmed, 2, 0)
    IN  IF CharAt(trimmed, 1) = "!" /\ m.ok /\ m.end = Len(trimmed) + 1
        THEN Some([alt |-> m.text, src |-> m.target])
        ELSE None

\* the block is no heading: an image alone, a blockquote, or a paragraph
RenderPlain(trimmed, imgMatch) ==
    IF StartsAt(trimmed, "![", 1) /\ imgMatch # None
    THEN "<img src=\"" \o imgMatch[1].src \o "\" alt=\"" \o imgMatch[1].alt \o "\">"
    ELSE IF StartsAt(trimmed, "> ", 1)
    THEN "<blockquote><p>" \o convertInline(ReplaceAll("quote", trimmed, <<>>))
              \o "</p></blockquote>"
    ELSE "<p>" \o convertInline(trimmed) \o "</p>"

HeadingHtml(level, inline) == "<h" \o level \o ">" \o inline \o "</h" \o level \o ">"

RenderMatched(trimmed, headingMatch) ==
    IF headingMatch # None
    THEN HeadingHtml(ToString(headingMatch[1].level), convertInline(headingMatch[1].text))
    ELSE RenderPlain(trimmed, ImageOnlyMatch(trimmed))

RenderTrimmed(trimmed) ==
    IF trimmed = "" THEN "" ELSE RenderMatched(trimmed, HeadingMatch(trimmed))

\* the callback of blocks.map in markdownToHtml
MarkdownBlock(block) == RenderTrimmed(Trim(block))

\* filter(Boolean) on one rendered block
Kept(rendered) == IF rendered = "" THEN <<>> ELSE <<rendered>>

\* blocks.map(...).filter(Boolean)
RECURSIVE MarkdownBlocks(_)
MarkdownBlocks(blocks) ==
    IF blocks = <<>> THEN <<>>
    ELSE Kept(MarkdownBlock(Head(blocks))) \o MarkdownBlocks(Tail(blocks))

\* markdownToHtml of a string or undefined
markdownToHtml(markdown) ==
    IF ~Truthy(markdown) THEN ""
    ELSE Join(MarkdownBlocks(SplitBlocks(Trim(markdown), 1)), "\n")

\* schemes whose URLs have a tuple origin
SpecialSchemes == {"http", "https", "ftp", "ws", "wss"}

\* the index of the first of "/", "?", "#" at or after i, or Len(s) + 1
HostEnd(s, i) ==
    Least({j \in i..(Len(s) + 1) : j = Len(s) + 1 \/ CharAt(s, j) \in {"/", "?", "#"}})

SchemeChars ==
    { "a", "b", "c", "d", "e", "f", "g", "h", "i", "j", "k", "l", "m", "n", "o", "p",
      "q", "r", "s", "t", "u", "v", "w", "x", "y", "z", "0", "1", "2", "3", "4", "5",
      "6", "7", "8", "9", "+", "-", "." }

\* the index after the run of scheme characters that starts at i
RECURSIVE SchemeEnd(_, _)
SchemeEnd(s, i) ==
    IF i <= Len(s) /\ CharAt(s, i) \in SchemeChars THEN SchemeEnd(s, i + 1) ELSE i

\* new URL(baseUrl).origin for a lower-case URL without credentials and
\* without a default port: Some(origin), or None when the constructor throws.
\* A URL of another scheme has the opaque origin, which reads "null".
Origin(baseUrl) ==
    LET colon  == SchemeEnd(baseUrl, 1)
        scheme == SubSeq(baseUrl, 1, colon - 1)
        from   == colon + 3
        end    == HostEnd(baseUrl, from)
    IN  IF colon = 1 \/ IsDigit(CharAt(baseUrl, 1)) \/ CharAt(baseUrl, 1) \in {"+", "-", "."}
           \/ CharAt(baseUrl, colon) # ":"
        THEN None
        ELSE IF scheme \notin SpecialSchemes THEN Some("null")
        ELSE IF ~StartsAt(baseUrl, "://", colon) \/ end = from THEN None
        ELSE Some(SubSeq(baseUrl, 1, end - 1))

\* html with the root-relative src and href values put after origin
Resolved(html_, origin) ==
    IF origin = None THEN html_
    ELSE ReplaceAll("attr", ReplaceAll("attr", html_, <<"src", origin[1]>>),
                    <<"href", origin[1]>>)

resolveUrls(html_, baseUrl) ==
    IF ~Truthy(baseUrl) THEN html_ ELSE Resolved(html_, Origin(baseUrl))

-----------------------------------------------------------------------------
(* next-data.js: tryExtractFromNextData *)

\* html.match(NEXT_DATA_REGEX): None, or the text captured between the
\* opening tag and the first </script> that leaves it at least one character
NextDataOpen == "<script id=\"__NEXT_DATA__\" type=\"application/json\">"

NextDataMatch(html_) ==
    LET open  == IndexFrom(html_, NextDataOpen, 1)
        from  == open + Len(NextDataOpen)
        close == IndexFrom(html_, "</script>", from + 1)
    IN  IF open = 0 \/ close = 0 THEN None ELSE Some(SubSeq(html_, from, close - 1))

\* value?.key
JGet(value, key) ==
    IF value.t = "object" /\ key \in DOMAIN value.v THEN value.v[key] ELSE JUndefined

\* whether a number literal denotes zero: its mantissa has no other digit
RECURSIVE IsZeroLiteral(_)
IsZeroLiteral(literal) ==
    \/ literal = ""
    \/ Head(literal) \in {"e", "E"}
    \/ /\ Head(literal) \in {"-", "0", "."}
       /\ IsZeroLiteral(Tail(literal))

\* JavaScript truthiness of a JSON value
JTruthy(value) ==
    CASE value.t \in {"object", "array"} -> TRUE
      [] value.t = "string"  -> value.v # ""
      [] value.t = "boolean" -> value.v = "true"
      [] value.t = "number"  -> ~IsZeroLiteral(value.v)
      [] OTHER -> FALSE

\* String(number) for a literal without exponent that a double holds exactly
NumberToString(literal) ==
    LET dot      == IndexFrom(literal, ".", 1)
        digits   == {i \in (dot + 1)..Len(literal) : CharAt(literal, i) # "0"}
        last     == IF digits = {} THEN dot - 1
                    ELSE CHOOSE i \in digits : \A j \in digits : j <= i
    IN  IF IsZeroLiteral(literal) THEN "0"
        ELSE IF dot = 0 THEN literal
        ELSE SubSeq(literal, 1, last)

\* String(value) as Array.prototype.join applies it to an element
RECURSIVE JToString(_)
RECURSIVE JJoin(_, _)
JToString(value) ==
    CASE value.t = "string"  -> value.v
      [] value.t = "boolean" -> value.v
      [] value.t = "number"  -> NumberToString(value.v)
      [] value.t = "array"   -> JJoin(value.v, ",")
      [] value.t = "object"  -> "[object Object]"
      [] OTHER -> ""

\* items.join(sep)
JJoin(items, sep) ==
    IF items = <<>> THEN ""
    ELSE IF Len(items) = 1 THEN JToString(items[1])
    ELSE JToString(items[1]) \o sep \o JJoin(Tail(items), sep)

\* what a call of tryExtractFromNextData comes to: it returns null, returns a
\* document, or throws
ReturnsNull == [kind |-> "null", doc |-> None, error |-> ""]
ReturnsDoc(doc) == [kind |-> "doc", doc |-> Some(doc), error |-> ""]
Throws(message) == [kind |-> "throw", doc |-> None, error |-> message]

\* A title that is not a string stays the JSON value it is.
FromContent(content, title, authors, baseUrl) ==
    IF ~JTruthy(content) THEN ReturnsNull
    ELSE IF content.t # "string" THEN Throws("markdown.trim is not a function")
    ELSE ReturnsDoc(Doc(IF ~JTruthy(title) THEN "Article"
                        ELSE IF title.t = "string" THEN title.v ELSE title,
                        resolveUrls(markdownToHtml(content.v), baseUrl),
                        content.v,
                        IF authors.t = "array" /\ Len(authors.v) > 0
                        THEN JJoin(authors.v, ", ") ELSE Null,
                        Null))

FromPostData(postData, baseUrl) ==
    FromContent(JGet(postData, "content"), JGet(postData, "title"),
                JGet(postData, "authors"), baseUrl)

\* data?.props?.pageProps?.postData
FromJson(json, baseUrl) ==
    IF json = None THEN ReturnsNull
    ELSE FromPostData(JGet(JGet(JGet(json[1], "props"), "pageProps"), "postData"), baseUrl)

FromMatch(match, baseUrl) ==
    IF match = None THEN ReturnsNull ELSE FromJson(JsonParse(match[1]), baseUrl)

tryExtractFromNextData(html_, baseUrl) == FromMatch(NextDataMatch(html_), baseUrl)

-----------------------------------------------------------------------------
(* index.js: extract *)

Route(u) == IF isTwitterUrl(u) THEN "extractTweet" ELSE "extractArticle"

\* a page whose __NEXT_DATA__ script holds the payload
PageWithNextData(payload) ==
    "<html><body>" \o NextDataOpen \o payload \o "</script></body></html>"

\* pages a server may answer with: one without the script, one whose script
\* holds a post, one whose script is not JSON, one whose script has no post
HtmlPool ==
    { "<html><body>test</body></html>",
      PageWithNextData("{\"props\":{\"pageProps\":{\"postData\":{\"title\":\"Post\","
                       \o "\"content\":\"# Hi\\n\\n![i](/a.png)\",\"authors\":[\"Ann\",\"Bo\"]}}}}"),
      PageWithNextData("{bad json"),
      PageWithNextData("{\"props\":{\"pageProps\":{\"someOtherData\":{}}}}") }

-----------------------------------------------------------------------------
(* The state machine of one extract(url) call *)

Init ==
    /\ url \in UrlPool
    /\ pc = "start"
    /\ calls = <<>>
    /\ requests = <<>>
    /\ inner = Pending
    /\ outer = Pending
    /\ data = None
    /\ subs = <<>>
    /\ lookup = EmptyMap
    /\ primary = None
    /\ html = Undefined
    /\ parsed = <<>>
    /\ input = Undefined
    /\ output = <<>>
    /\ argv = <<>>
    /\ files = {}
    /\ mainPc = "idle"
    /\ articles = <<>>
    /\ extracted = <<>>
    /\ converted = <<>>
    /\ sent = <<>>
    /\ failure = ""

\* the extractor's promise settles: extract resumes from its await
Settle(p) ==
    /\ inner' = p
    /\ pc' = "return"

\* extractTweet up to `await fetch(apiUrl)`
StartTweet ==
    LET match == TweetUrlMatch(url)
    IN  IF match = None
        THEN /\ Settle(Rejected("Could not parse Twitter URL"))
             /\ UNCHANGED requests
        ELSE /\ requests' = Append(requests, ApiUrl(match[1]))
             /\ pc' = "tweetFetch"
             /\ UNCHANGED inner

\* extractArticle up to `await fetch(url)`
StartArticle ==
    /\ requests' = Append(requests, url)
    /\ pc' = "articleFetch"
    /\ UNCHANGED inner

\* extract(url) is called: it runs into the chosen extractor's first await
Extract ==
    /\ pc = "start"
    /\ calls' = Append(calls, Route(url))
    /\ IF Route(url) = "extractTweet" THEN StartTweet ELSE StartArticle
    /\ UNCHANGED <<url, outer, data, subs, lookup, primary, html, parsed>>
    /\ UNCHANGED outsideExtract

\* a variant of TweetFetchDone that fetches once more after a failure
TweetFetchDoneWithRetry ==
    /\ pc = "tweetFetch"
    /\ \E r \in ResponsePool :
          /\ primary' = Some(r)
          /\ IF PrimaryFetchError(r) # None /\ Len(requests) < 2
             THEN /\ requests' = Append(requests, requests[1])
                  /\ UNCHANGED <<pc, inner, calls>>
             ELSE IF PrimaryFetchError(r) # None
             THEN Settle(Rejected(PrimaryFetchError(r)[1])) /\ UNCHANGED <<calls, requests>>
             ELSE /\ calls' = Append(calls, "response.json")
                  /\ pc' = "tweetJson"
                  /\ UNCHANGED <<inner, requests>>
    /\ UNCHANGED <<url, outer, data, subs, lookup, html, parsed>>
    /\ UNCHANGED outsideExtract

\* the primary API fetch settles
TweetFetchDone ==
    /\ pc = "tweetFetch"
    /\ \E r \in ResponsePool :
          /\ primary' = Some(r)
          /\ IF PrimaryFetchError(r) # None
             THEN Settle(Rejected(PrimaryFetchError(r)[1])) /\ UNCHANGED calls
             ELSE /\ calls' = Append(calls, "response.json")
                  /\ pc' = "tweetJson"
                  /\ UNCHANGED inner
    /\ UNCHANGED <<url, requests, outer, data, subs, lookup, html, parsed>>
    /\ UNCHANGED outsideExtract

\* extractTweet from the parsed payload d to its next await or its end
AfterTweetJson(d) ==
    LET username == TweetUrlMatch(url)[1].username
        tweet    == d.tweet[1]
        entries  == TweetEntries(tweet.article[1].entityMap)
    IN  IF PayloadError(d) # None
        THEN /\ Settle(Rejected(PayloadError(d)[1]))
             /\ UNCHANGED <<requests, subs>>
        ELSE IF ~IsArticle(tweet)
        THEN /\ Settle(RegularTweet(tweet, username))
             /\ UNCHANGED <<requests, subs>>
        ELSE IF entries = <<>>
        THEN \* fetchReferencedTweets returns an empty map without fetching
             /\ Settle(Fulfilled(ArticleDoc(tweet, username, EmptyMap)))
             /\ UNCHANGED <<requests, subs>>
        ELSE /\ subs' = StartTasks(entries)
             /\ requests' = requests \o SubRequests(entries)
             /\ pc' = "allSettled"
             /\ UNCHANGED inner

\* response.json() of the primary response settles
TweetJsonDone ==
    /\ pc = "tweetJson"
    /\ \E body \in {None} \cup {Some(d) : d \in DataPool} :
          IF body = None
          THEN /\ Settle(Rejected(JsonError))
               /\ UNCHANGED <<requests, subs, data>>
          ELSE /\ data' = body
               /\ AfterTweetJson(body[1])
    /\ UNCHANGED <<url, calls, outer, lookup, primary, html, parsed>>
    /\ UNCHANGED outsideExtract

\* the fetch of one quoted tweet settles
SubFetchDone ==
    /\ pc = "allSettled"
    /\ \E i \in DOMAIN subs : \E r \in SubResponsePool :
          /\ subs[i].st = "fetch"
          /\ subs' = [subs EXCEPT ![i] = AfterSubFetch(r)]
    /\ UNCHANGED <<url, pc, calls, requests, inner, outer, data, lookup, primary,
                   html, parsed>>
    /\ UNCHANGED outsideExtract

\* response.json() of one quoted tweet settles
SubJsonDone ==
    /\ pc = "allSettled"
    /\ \E i \in DOMAIN subs : \E body \in {None} \cup {Some(d) : d \in SubDataPool} :
          /\ subs[i].st = "json"
          /\ subs' = [subs EXCEPT ![i] =
                 AfterSubJson(TweetEntries(data[1].tweet[1].article[1].entityMap)[i],
                              subs[i].resp, body)]
    /\ UNCHANGED <<url, pc, calls, requests, inner, outer, data, lookup, primary,
                   html, parsed>>
    /\ UNCHANGED outsideExtract

\* Promise.allSettled resolves: the lookup is built, the blocks are rendered
\* and extractTweet returns the article
RenderArticle ==
    /\ pc = "allSettled"
    /\ AllSettled(subs)
    /\ lookup' = BuildLookup(subs)
    /\ Settle(Fulfilled(ArticleDoc(data[1].tweet[1], TweetUrlMatch(url)[1].username,
                                   lookup')))
    /\ UNCHANGED <<url, calls, requests, outer, data, subs, primary, html, parsed>>
    /\ UNCHANGED outsideExtract

\* the page fetch settles
ArticleFetchDone ==
    /\ pc = "articleFetch"
    /\ \E r \in ResponsePool :
          /\ primary' = Some(r)
          /\ IF PageFetchError(r) # None
             THEN Settle(Rejected(PageFetchError(r)[1])) /\ UNCHANGED calls
             ELSE /\ calls' = Append(calls, "response.text")
                  /\ pc' = "articleText"
                  /\ UNCHANGED inner
    /\ UNCHANGED <<url, requests, outer, data, subs, lookup, html, parsed>>
    /\ UNCHANGED outsideExtract

\* response.text() resolves: the page is parsed and readability runs
ArticleTextDone ==
    /\ pc = "articleText"
    /\ \E page \in HtmlPool : \E article \in ReadabilityPool :
          /\ html' = page
          /\ calls' = Append(calls, "Readability")
          /\ parsed' = <<article>>
          /\ Settle(FromReadability(article))
    /\ UNCHANGED <<url, requests, outer, data, subs, lookup, primary>>
    /\ UNCHANGED outsideExtract

\* a variant of Return that falls back to extractArticle when extractTweet threw
ReturnWithFallback ==
    /\ pc = "return"
    /\ IF inner.state = "rejected" /\ calls[Len(calls)] # "extractArticle"
          /\ ~("extractArticle" \in {calls[i] : i \in DOMAIN calls})
       THEN /\ calls' = Append(calls, "extractArticle")
            /\ requests' = Append(requests, url)
            /\ inner' = Pending
            /\ pc' = "articleFetch"
            /\ UNCHANGED outer
       ELSE /\ outer' = inner
            /\ pc' = "done"
            /\ UNCHANGED <<calls, requests, inner>>
    /\ UNCHANGED <<url, data, subs, lookup, primary, html, parsed>>
    /\ UNCHANGED outsideExtract

\* extract returns what the extractor returned, or throws what it threw
Return ==
    /\ pc = "return"
    /\ outer' = inner
    /\ pc' = "done"
    /\ UNCHANGED <<url, calls, requests, inner, data, subs, lookup, primary, html,
                   parsed>>
    /\ UNCHANGED outsideExtract

Next ==
    \/ Extract
    \/ TweetFetchDone
    \/ TweetJsonDone
    \/ SubFetchDone
    \/ SubJsonDone
    \/ RenderArticle
    \/ ArticleFetchDone
    \/ ArticleTextDone
    \/ Return

Spec == Init /\ [][Next]_vars

-----------------------------------------------------------------------------
(* Properties *)

Range(q) == {q[i] : i \in DOMAIN q}

Count(q, x) == Cardinality({i \in DOMAIN q : q[i] = x})

Extractors == {"extractTweet", "extractArticle"}

\* the extractors invoked so far
Invoked == SelectSeq(calls, LAMBDA c : c \in Extractors)

Finished == pc \in {"return", "done"}

\* a request to the API the social-post extractor uses
IsApiUrl(r) == StartsAt(r, "https://api.fxtwitter.com/", 1)

\* C1: extract(url) invokes exactly one extractor, extractTweet when
\* isTwitterUrl(url) and extractArticle otherwise; it never invokes both, not
\* even after the first has failed, every request goes to the endpoint of the
\* chosen extractor, and extract settles exactly as that extractor did.
C1_ExactlyOneExtractor ==
    /\ pc = "start" => Invoked = <<>> /\ requests = <<>>
    /\ pc # "start" =>
          /\ Len(Invoked) = 1
          /\ Invoked[1] = (IF isTwitterUrl(url) THEN "extractTweet" ELSE "extractArticle")
          /\ Invoked[1] = "extractTweet" => \A r \in Range(requests) : IsApiUrl(r)
          /\ Invoked[1] = "extractArticle" => \A r \in Range(requests) : r = url
    /\ pc = "done" <=> outer.state # "pending"
    /\ pc = "done" => outer = inner /\ inner.state # "pending"

\* an extractTweet failure reaches the caller of extract as it was thrown
C1_Witness ==
    /\ pc = "done"
    /\ Invoked = <<"extractTweet">>
    /\ outer = Rejected("API error! status: 500")

\* the host of a URL: the text between "://" and the next "/"
HostOf(u) ==
    LET s    == IndexFrom(u, "://", 1)
        from == IF s = 0 THEN 1 ELSE s + 3
        e    == IndexFrom(u, "/", from)
    IN  IF e = 0 THEN SubSeq(u, from, Len(u)) ELSE SubSeq(u, from, e - 1)

RecognizedHosts == {"x.com", "twitter.com"}

\* C2: a URL is classified as a social-post URL exactly when its host is one
\* of the two recognized hosts and it contains "/status/"; a URL on any other
\* host is not, even when its path contains "/status/".
C2_ClassifiedByHost ==
    pc # "start" =>
       (Invoked[1] = "extractTweet"
          <=> (HostOf(url) \in RecognizedHosts /\ Includes(url, "/status/")))

\* C3: every document an extraction returns has a body that is not empty.
C3_ContentNotEmpty ==
    inner.state = "fulfilled" => Trim(inner.value[1].content) # ""

-----------------------------------------------------------------------------
(* The fan-out of fetchReferencedTweets *)

\* the TWEET entries of the article being extracted
Entries == TweetEntries(data[1].tweet[1].article[1].entityMap)

InFanOut == subs # <<>>

\* the network answered task i with a usable quoted tweet
Succeeded(i) ==
    /\ subs[i].resp # None
    /\ ~subs[i].resp[1].failed
    /\ subs[i].resp[1].ok
    /\ subs[i].body # <<>>
    /\ subs[i].body[1] # None
    /\ subs[i].body[1][1].code = 200
    /\ subs[i].body[1][1].tweet # None

\* the network has answered everything task i asked for
Answered(i) ==
    \/ ~Truthy(Entries[i].tweetId)
    \/ /\ subs[i].resp # None
       /\ (~subs[i].resp[1].failed /\ subs[i].resp[1].ok) => subs[i].body # <<>>

\* C4: whatever subset of the sub-fetches fails (the fetch rejects, the status
\* is not ok, the body is not JSON, the API code is not 200, the tweet is
\* missing), fetchReferencedTweets resolves: once every task has been answered
\* the article can be rendered, the map it returned has an entry for exactly
\* the entity keys whose sub-fetch succeeded, and extractTweet returns the
\* article.
C4_PartialFailureTolerated ==
    InFanOut =>
       /\ (pc = "allSettled" /\ \A i \in DOMAIN subs : Answered(i)) => ENABLED RenderArticle
       /\ Finished =>
             /\ inner.state = "fulfilled"
             /\ DOMAIN lookup = {Entries[i].key : i \in {j \in DOMAIN subs : Succeeded(j)}}

\* three quoted tweets, the first sub-fetch rejected, the second answered
\* with an API error code, the third resolved
C4_Witness ==
    /\ pc = "done"
    /\ Len(subs) = 3
    /\ subs[1].resp # None /\ subs[1].resp[1].failed
    /\ subs[2].body # <<>> /\ subs[2].body[1] # None /\ subs[2].body[1][1].code = 404
    /\ Succeeded(3)
    /\ DOMAIN lookup = {Entries[3].key}
    /\ outer.state = "fulfilled"

\* C5: every sub-fetch is issued before any response is processed, the blocks
\* are not rendered before every issued sub-fetch has been answered, and the
\* failure of one task leaves the others to their own answers.
C5_IssueAllThenWaitForAll ==
    InFanOut =>
       /\ \A i \in DOMAIN subs :
             Truthy(Entries[i].tweetId) => SubUrl(Entries[i].tweetId) \in Range(requests)
       /\ Finished => \A i \in DOMAIN subs : Answered(i)
       /\ \A i \in DOMAIN subs :
             /\ subs[i].resp = None =>
                   subs[i].st = (IF Truthy(Entries[i].tweetId) THEN "fetch" ELSE "fulfilled")
             /\ (subs[i].resp # None /\ subs[i].resp[1].failed) => subs[i].st = "rejected"
             /\ (subs[i].body # <<>> /\ subs[i].body[1] = None) => subs[i].st = "rejected"
             /\ Succeeded(i) => subs[i].st = "fulfilled" /\ subs[i].value # None

\* the article is returned after a rejected first sub-fetch and two later answers
C5_Witness ==
    /\ pc = "return"
    /\ Len(subs) = 3
    /\ subs[1].st = "rejected"
    /\ Succeeded(2)
    /\ Succeeded(3)
    /\ inner.state = "fulfilled"

-----------------------------------------------------------------------------
(* Fetches and failures *)

\* the primary fetch was answered, and not with an ok response
PrimaryFailed == primary # None /\ (primary[1].failed \/ ~primary[1].ok)

\* the primary fetch resolved with a response whose status is not ok
PrimaryNotOk == primary # None /\ ~primary[1].failed /\ ~primary[1].ok

\* C6: nothing is fetched twice: extractTweet asks the primary endpoint at
\* most once and issues at most one sub-fetch per TWEET entry, extractArticle
\* asks for the page at most once, and after a failed primary fetch nothing
\* more is requested and the extraction ends in an error.
C6_NoRetry ==
    /\ Invoked = <<"extractTweet">> =>
          /\ Cardinality({i \in DOMAIN requests : ~StartsAt(requests[i], SubUrl(""), 1)}) <= 1
          /\ ~InFanOut => Len(requests) <= 1
          /\ InFanOut =>
                /\ Len(requests) <= 1 + Len(Entries)
                /\ \A r \in Range(requests) :
                      StartsAt(r, SubUrl(""), 1) =>
                         Count(requests, r)
                            <= Cardinality({i \in DOMAIN Entries :
                                              Truthy(Entries[i].tweetId)
                                              /\ SubUrl(Entries[i].tweetId) = r})
    /\ Invoked = <<"extractArticle">> => Len(requests) <= 1
    /\ PrimaryFailed => Len(requests) = 1 /\ Finished /\ inner.state = "rejected"

\* the primary API fetch failed and the extraction ended with one request made
C6_Witness ==
    /\ pc = "done"
    /\ Invoked = <<"extractTweet">>
    /\ primary # None /\ primary[1].failed
    /\ Len(requests) = 1
    /\ outer.state = "rejected"

\* C7: extractTweet stops at the first failure that applies: a URL that does
\* not match the handle/status-id pattern fails with 'Could not parse Twitter
\* URL' before any request; a response that is not ok fails with 'API error!
\* status: <status>' and its body is never read; a payload whose code is not
\* 200 or that has no tweet fails with the message of the payload, or with
\* 'Tweet not found or has been deleted' when it has none.
C7_FailureOrder ==
    (Invoked = <<"extractTweet">>) =>
       /\ TweetUrlMatch(url) = None =>
             /\ inner = Rejected("Could not parse Twitter URL")
             /\ requests = <<>>
             /\ primary = None
       /\ PrimaryNotOk =>
             /\ inner = Rejected("API error! status: " \o ToString(primary[1].status))
             /\ ~("response.json" \in Range(calls))
             /\ data = None
       /\ (data # None /\ (data[1].code # 200 \/ data[1].tweet = None)) =>
             /\ inner.state = "rejected"
             /\ inner.error = (IF data[1].message \in {Undefined, ""}
                               THEN "Tweet not found or has been deleted"
                               ELSE data[1].message)
             /\ Len(requests) = 1

\* the payload carries an error code and a message of its own
C7_Witness ==
    /\ pc = "done"
    /\ data # None
    /\ data[1].code = 404
    /\ data[1].message = "Tweet not found"
    /\ outer = Rejected("Tweet not found")

\* a text that is missing, empty or made of whitespace only
Blank(text) == text = Undefined \/ \A i \in 1..Len(text) : IsSpace(CharAt(text, i))

\* the payload is a tweet without an article block list
ShortPost ==
    /\ data # None
    /\ data[1].code = 200
    /\ data[1].tweet # None
    /\ (data[1].tweet[1].article = None \/ data[1].tweet[1].article[1].blocks = None)

\* C8: in the short-post branch a text that is missing, empty or whitespace
\* only ends the extraction with 'Tweet has no text content' and no document,
\* whether or not the tweet has photos or a quoted tweet.
C8_EmptyTextFails ==
    (ShortPost /\ Blank(data[1].tweet[1].text)) =>
       inner = Rejected("Tweet has no text content")

\* a whitespace-only tweet with a photo and a quoted tweet
C8_Witness ==
    /\ pc = "done"
    /\ ShortPost
    /\ data[1].tweet[1].text = " \n\t "
    /\ Len(data[1].tweet[1].photos) > 0
    /\ data[1].tweet[1].quote # None
    /\ outer = Rejected("Tweet has no text content")

\* Readability.parse() returned no article, no content, or too little of it
NothingMeaningful ==
    /\ parsed # <<>>
    /\ \/ parsed[1] = None
       \/ parsed[1][1].content \in {Undefined, ""}
       \/ Len(parsed[1][1].content) < 100

FromNextData == tryExtractFromNextData(html, url)

\* C10: in extractArticle the structured-data extraction runs before the
\* heuristic one: readability is invoked only after tryExtractFromNextData
\* has run on the page; when tryExtractFromNextData yields a document,
\* extractArticle returns that document and never invokes readability; when
\* it yields null, the outcome is the one readability gives.
C10_NextDataBeforeReadability ==
    /\ \A j \in DOMAIN calls :
          calls[j] = "Readability" =>
             \E i \in 1..(j - 1) : calls[i] = "tryExtractFromNextData"
    /\ (pc = "done" /\ html # Undefined /\ FromNextData.kind = "doc") =>
          /\ outer = Fulfilled(FromNextData.doc[1])
          /\ "Readability" \notin Range(calls)
    /\ (pc = "done" /\ html # Undefined /\ FromNextData.kind = "null") =>
          outer = FromReadability(parsed[1])

-----------------------------------------------------------------------------
(* The study of one function: its argument is drawn from a pool and the      *)
(* function is applied to it.                                                *)

\* no extract(url) call is under way
ExtractIdle ==
    /\ url = Undefined
    /\ pc = "idle"
    /\ calls = <<>>
    /\ requests = <<>>
    /\ inner = Pending
    /\ outer = Pending
    /\ data = None
    /\ subs = <<>>
    /\ lookup = EmptyMap
    /\ primary = None
    /\ html = Undefined
    /\ parsed = <<>>

\* main() is not running
MainIdle ==
    /\ argv = <<>>
    /\ files = {}
    /\ mainPc = "idle"
    /\ articles = <<>>
    /\ extracted = <<>>
    /\ converted = <<>>
    /\ sent = <<>>
    /\ failure = ""

\* one application of a function: its name and what it came to
Applied(fn, result) == [fn |-> fn, result |-> result]

-----------------------------------------------------------------------------
(* next-data.js: tryExtractFromNextData applied to a page *)

\* the texts of the content member of postData ("" when it has none): absent,
\* empty, markdown, and values that are not strings
ContentPool ==
    { "", "\"\"", "\"# Hi\\n\\n![i](/a.png)\"", "\"Some **text**.\"",
      "5", "0", "true", "false", "null", "[]", "[\"a\"]", "{}", "{\"trim\":1}" }

TitlePool == { "", "\"\"", "\"Post\"", "7" }

AuthorsPool == { "", "[\"Ann\",\"Bo\"]", "[]", "\"Ann\"" }

\* "key":text, or nothing for a member that is absent
Member(key, text) == IF text = "" THEN <<>> ELSE <<"\"" \o key \o "\":" \o text>>

\* JSON.stringify({props: {pageProps: {postData: {title, content, authors}}}})
PostPayload(title, content, authors) ==
    "{\"props\":{\"pageProps\":{\"postData\":{"
        \o Join(Member("title", title) \o Member("content", content)
                    \o Member("authors", authors), ",")
        \o "}}}}"

\* payloads without a post: malformed JSON, values that are not objects,
\* objects without props.pageProps.postData
OtherPayloads ==
    { "{bad json", "null", "5", "[]", "{\"props\":null}",
      "{\"props\":{\"pageProps\":{\"someOtherData\":{}}}}",
      "{\"props\":{\"pageProps\":{\"postData\":\"text\"}}}" }

NextDataPages ==
    { "<html><body><p>Hello</p></body></html>", PageWithNextData("") }
        \cup {PageWithNextData(payload) : payload \in OtherPayloads}
        \cup {PageWithNextData(PostPayload(title, content, authors)) :
                 title \in TitlePool, content \in ContentPool, authors \in AuthorsPool}

\* the baseUrl argument: omitted, a URL, a text that is no URL
BaseUrlPool == { Undefined, "https://example.com/article", "not a url" }

InitNextData ==
    /\ ExtractIdle
    /\ MainIdle
    /\ input \in [html : NextDataPages, baseUrl : BaseUrlPool]
    /\ output = <<>>

\* tryExtractFromNextData(html, baseUrl) is called and comes to its end
TryExtract ==
    /\ output = <<>>
    /\ output' = <<Applied("tryExtractFromNextData",
                           tryExtractFromNextData(input.html, input.baseUrl))>>
    /\ UNCHANGED <<input, outsideStudy>>

NextNextData == TryExtract

SpecNextData == InitNextData /\ [][NextNextData]_vars

\* C11: tryExtractFromNextData never throws to its caller: whatever the page
\* and the payload of its __NEXT_DATA__ script (malformed JSON, no postData,
\* a content that is absent, empty or not a string), the call returns a
\* document or null.
C11_NeverThrows ==
    \A i \in DOMAIN output :
       output[i].fn = "tryExtractFromNextData" => output[i].result.kind \in {"doc", "null"}

-----------------------------------------------------------------------------
(* utils.js: the markup repair applied to a fragment *)

\* the most parts a fragment is put together from
MaxParts == 3

\* the most picture groupings and stretches of other markup in a fragment
MaxGroupings == 2

\* the most times a transform is applied in a row
MaxApplications == 2

\* a stretch of a fragment: its text, and the text the spec says the
\* transform it is meant for turns it into
Part(kind, text, want) == [kind |-> kind, text |-> text, want |-> want]

Markup(text) == Part("markup", text, text)

\* recognized YouTube embeds, each with the link paragraph of its video and
\* title (src/src/utils.test.js:119-165)
EmbedPool ==
    { Part("embed",
           "<iframe width=\"200\" height=\"150\" src=\"https://www.youtube.com/embed/4Nna09dG_c0?feature=oembed\" frameborder=\"0\" title=\"My Video Title\"></iframe>",
           LinkParagraph("4Nna09dG_c0", "My Video Title")),
      Part("embed", "<iframe src=\"https://www.youtube.com/embed/abc123\"></iframe>",
           LinkParagraph("abc123", "YouTube Video")),
      Part("embed",
           "<IFRAME title=\"No WWW\" SRC=\"http://YouTube.com/embed/xyz789\"></IFRAME>",
           LinkParagraph("xyz789", "No WWW")) }

\* markup that is no recognized embed: text, and iframes of other hosts
OtherMarkupPool ==
    { Markup("<p>Some text</p>"),
      Markup("<iframe src=\"https://vimeo.com/embed/12345\" title=\"Vimeo\"></iframe>"),
      Markup("<figure><iframe src=\"https://www.youtube-nocookie.com/embed/q1\" title=\"Other\"></iframe></figure>") }

\* the fragments of at most n parts of pool
Fragments(pool, n) == UNION {[1..k -> pool] : k \in 0..n}

\* the text of a fragment
RECURSIVE TextOf(_)
TextOf(parts) == IF parts = <<>> THEN "" ELSE Head(parts).text \o TextOf(Tail(parts))

\* the text the spec says the fragment is turned into
RECURSIVE WantOf(_)
WantOf(parts) == IF parts = <<>> THEN "" ELSE Head(parts).want \o WantOf(Tail(parts))

\* the text the next application is given
Current == IF output = <<>> THEN TextOf(input) ELSE output[Len(output)].result

InitEmbeds ==
    /\ ExtractIdle
    /\ MainIdle
    /\ input \in Fragments(EmbedPool \cup OtherMarkupPool, MaxParts)
    /\ output = <<>>

\* replaceYouTubeEmbeds(html) is called on the fragment, or on what the
\* call before returned
ReplaceEmbeds ==
    /\ Len(output) < MaxApplications
    /\ output' = Append(output, Applied("replaceYouTubeEmbeds", replaceYouTubeEmbeds(Current)))
    /\ UNCHANGED <<input, outsideStudy>>

NextEmbeds == ReplaceEmbeds

SpecEmbeds == InitEmbeds /\ [][NextEmbeds]_vars

\* one <source> of a picture grouping: whether it is typed image/webp, and
\* its candidate list, each candidate a URL and a descriptor (no candidate:
\* the element has no srcset attribute)
Source(webp, candidates) == [webp |-> webp, candidates |-> candidates]

Candidate(u, descriptor) == [url |-> u, descriptor |-> descriptor]

RECURSIVE CandidateList(_)
CandidateList(candidates) ==
    IF Len(candidates) = 1 THEN Head(candidates).url \o " " \o Head(candidates).descriptor
    ELSE Head(candidates).url \o " " \o Head(candidates).descriptor \o ", "
             \o CandidateList(Tail(candidates))

SourceTag(source) ==
    "<source"
        \o (IF source.candidates = <<>> THEN " media=\"(min-width: 600px)\""
            ELSE " srcSet=\"" \o CandidateList(source.candidates) \o "\"")
        \o (IF source.webp THEN " type=\"image/webp\"" ELSE "")
        \o "/>"

RECURSIVE SourceTags(_)
SourceTags(sources) ==
    IF sources = <<>> THEN "" ELSE SourceTag(Head(sources)) \o SourceTags(Tail(sources))

ImgTag(src) ==
    "<img" \o (IF src = Undefined THEN "" ELSE " src=\"" \o src \o "\"")
        \o " alt=\"\" width=\"700\"/>"

PictureText(sources, src) == "<picture>" \o SourceTags(sources) \o ImgTag(src) \o "</picture>"

\* the src the spec gives the img of a grouping: its own when it has one,
\* else the first URL of the first source that is not WebP and has a
\* candidate list, else that of the first WebP source that has one
ChosenSrc(sources, src) ==
    LET plain == {i \in DOMAIN sources : ~sources[i].webp /\ sources[i].candidates # <<>>}
        webp  == {i \in DOMAIN sources : sources[i].webp /\ sources[i].candidates # <<>>}
    IN  IF src # Undefined THEN src
        ELSE IF plain # {} THEN sources[Least(plain)].candidates[1].url
        ELSE IF webp # {} THEN sources[Least(webp)].candidates[1].url
        ELSE Undefined

Grouping(sources, src) ==
    Part("picture", PictureText(sources, src), PictureText(sources, ChosenSrc(sources, src)))

WebpSource == Source(TRUE, <<Candidate("https://example.com/webp-640.webp", "640w")>>)

JpegSource ==
    Source(FALSE, <<Candidate("https://example.com/jpeg-640.jpg", "640w"),
                    Candidate("https://example.com/jpeg-1400.jpg", "1400w")>>)

\* a source without a candidate list
MediaSource == Source(FALSE, <<>>)

\* candidates whose URL holds a "$": in a path segment, and as the whole
\* of a relative reference
DollarSource == Source(FALSE, <<Candidate("https://example.com/i/$&/a.jpg", "1x")>>)

QuoteSource == Source(FALSE, <<Candidate("$'", "1x")>>)

SourcesPool ==
    { <<>>, <<WebpSource>>, <<JpegSource>>, <<WebpSource, JpegSource>>,
      <<JpegSource, WebpSource>>, <<MediaSource>>, <<WebpSource, DollarSource>> }

SrcPool == { Undefined, "https://example.com/existing.jpg" }

GroupingPool == {Grouping(sources, src) : sources \in SourcesPool, src \in SrcPool}

\* markup around the groupings: text, and a grouping that is not closed
AroundPool ==
    { Markup("<p>text</p>"),
      Markup("<picture>" \o SourceTag(QuoteSource) \o ImgTag(Undefined)) }

InitPictures ==
    /\ ExtractIdle
    /\ MainIdle
    /\ input \in Fragments(GroupingPool \cup AroundPool, MaxGroupings)
    /\ output = <<>>

\* fixPictureSources(html) is called on the fragment, or on what the call
\* before returned
FixPictures ==
    /\ Len(output) < MaxApplications
    /\ output' = Append(output, Applied("fixPictureSources", fixPictureSources(Current)))
    /\ UNCHANGED <<input, outsideStudy>>

NextPictures == FixPictures

SpecPictures == InitPictures /\ [][NextPictures]_vars

\* C12: both markup repair transforms are idempotent: applied to its own
\* result, replaceYouTubeEmbeds returns it unchanged, and so does
\* fixPictureSources.
C12_Idempotent ==
    \A i \in 2..Len(output) :
       output[i].fn = output[i - 1].fn => output[i].result = output[i - 1].result

\* C13: replaceYouTubeEmbeds changes only recognized YouTube embeds: a
\* fragment without one is returned unchanged, and in a fragment with one or
\* more each is replaced, in one pass, by the link paragraph of its video,
\* while the markup between and around them, iframes of other hosts
\* included, is kept as it was and in order.
C13_OnlyEmbedsReplaced ==
    (Len(output) >= 1 /\ output[1].fn = "replaceYouTubeEmbeds")
        => output[1].result = WantOf(input)

\* two embeds are replaced around an iframe of another host, which stays
C13_Witness ==
    /\ Len(output) >= 1
    /\ output[1].fn = "replaceYouTubeEmbeds"
    /\ Len(input) = 3
    /\ input[1].kind = "embed"
    /\ input[2].kind = "markup"
    /\ Includes(input[2].text, "<iframe")
    /\ input[3].kind = "embed"
    /\ output[1].result = input[1].want \o input[2].text \o input[3].want
    /\ output[1].result # TextOf(input)

\* C14: for a picture grouping whose img has no src, fixPictureSources gives
\* the img the first URL of the candidate list of the source that is not
\* WebP when there is one, and of the WebP source when it is the only one; a
\* grouping whose img has a src, or that has no source with a candidate
\* list, is returned unchanged.
C14_SourceSelection ==
    (Len(input) = 1 /\ input[1].kind = "picture" /\ Len(output) >= 1
        /\ output[1].fn = "fixPictureSources")
        => output[1].result = input[1].want

-----------------------------------------------------------------------------
(* utils.js: escapeYaml applied to a text *)

\* the longest text given to escapeYaml
MaxTextLen == 3

\* the characters of the texts: a letter, and each character escapeYaml
\* has a rule for
YamlChars == { "a", "\\", "\"", "\n", "\r", "\t" }

RECURSIVE Texts(_, _)
\* the texts of at most n characters of chars
Texts(chars, n) ==
    IF n = 0 THEN {""}
    ELSE Texts(chars, n - 1)
             \cup {t \o c : t \in {u \in Texts(chars, n - 1) : Len(u) = n - 1}, c \in chars}

InitEscapeYaml ==
    /\ ExtractIdle
    /\ MainIdle
    /\ input \in {Undefined, Null} \cup Texts(YamlChars, MaxTextLen)
    /\ output = <<>>

\* escapeYaml(text) is called
EscapeYaml ==
    /\ output = <<>>
    /\ output' = <<Applied("escapeYaml", escapeYaml(input))>>
    /\ UNCHANGED <<input, outsideStudy>>

NextEscapeYaml == EscapeYaml

SpecEscapeYaml == InitEscapeYaml /\ [][NextEscapeYaml]_vars

\* what the spec says one character of the text becomes
YamlEscapeOf(c) ==
    CASE c = "\\" -> "\\\\"
      [] c = "\"" -> "\\\""
      [] c = "\n" -> " "
      [] c = "\t" -> " "
      [] c = "\r" -> ""
      [] OTHER    -> c

RECURSIVE YamlEscapes(_)
YamlEscapes(text) ==
    IF text = "" THEN "" ELSE YamlEscapeOf(Head(text)) \o YamlEscapes(Tail(text))

\* the text between the first and the last character
Inside(s) == SubSeq(s, 2, Len(s) - 1)

\* C15: escapeYaml returns a string that begins and ends with a double
\* quote and holds no newline, carriage return or tab; between the outer
\* quotes every double quote and every backslash of the text stands escaped
\* by one backslash (an escaping backslash is not doubled again), every
\* newline and tab has become one space, carriage returns are gone and every
\* other character is kept; null, undefined and the empty text give "".
C15_EscapeYaml ==
    \A i \in DOMAIN output :
       output[i].fn = "escapeYaml" =>
          LET result == output[i].result
          IN  /\ Len(result) >= 2
              /\ Head(result) = "\"" /\ SubSeq(result, Len(result), Len(result)) = "\""
              /\ \A j \in 1..Len(result) : CharAt(result, j) \notin {"\n", "\r", "\t"}
              /\ input \in {Undefined, Null, ""} => result = "\"\""
              /\ input \notin {Undefined, Null} => Inside(result) = YamlEscapes(input)

\* a text holding a backslash, a double quote and a newline has been escaped
C15_Witness ==
    /\ output # <<>>
    /\ output[1].fn = "escapeYaml"
    /\ input = "\\\"\n"
    /\ output[1].result = "\"\\\\\\\" \""

-----------------------------------------------------------------------------
(* utils.js: sanitizeFilename applied to a title *)

\* the longest end of a title
MaxTailLen == 3

\* the characters of the end of a title: a letter, an underscore, a
\* space, a control character that is whitespace too, and unsafe characters
TitleChars == { "a", "_", " ", "\t", "/", "*" }

\* the beginning of a title: nothing, or letters up to the cut and past it
TitleStarts ==
    { "", Repeat("a", MaxFilenameLength - 1), Repeat("a", MaxFilenameLength) }

InitSanitize ==
    /\ ExtractIdle
    /\ MainIdle
    /\ input \in {start \o tail : start \in TitleStarts, tail \in Texts(TitleChars, MaxTailLen)}
    /\ output = <<>>

\* sanitizeFilename(name) is called
SanitizeFilename ==
    /\ output = <<>>
    /\ output' = <<Applied("sanitizeFilename", sanitizeFilename(input))>>
    /\ UNCHANGED <<input, outsideStudy>>

NextSanitize == SanitizeFilename

SpecSanitize == InitSanitize /\ [][NextSanitize]_vars

\* the character at j of the title is whitespace that is not removed as a
\* control character
StaysSpace(s, j) == CharAt(s, j) = " "

\* the character at j is removed
Removed(s, j) == IsUnsafe(CharAt(s, j))

\* the character at j begins a run of whitespace of what remains of the
\* title: the remaining character before it, if any, is no whitespace
BeginsRun(s, j) ==
    /\ StaysSpace(s, j)
    /\ \A k \in 1..(j - 1) :
          StaysSpace(s, k) => \E l \in (k + 1)..(j - 1) : ~Removed(s, l) /\ ~StaysSpace(s, l)

\* the character at j is given a character of the result
Emits(s, j) == ~Removed(s, j) /\ (StaysSpace(s, j) => BeginsRun(s, j))

\* the place in the uncut result of the character at j
PlaceOf(s, j) == Cardinality({k \in 1..j : Emits(s, k)})

\* C16: sanitizeFilename returns at most 100 characters, none of them one
\* of < > : " / \ | ? *, a control character or whitespace; the result is
\* the beginning of the title with those characters removed and each
\* remaining run of whitespace replaced by one underscore.
C16_SafeFilename ==
    \A i \in DOMAIN output :
       output[i].fn = "sanitizeFilename" =>
          LET result == output[i].result
              full   == PlaceOf(input, Len(input))
          IN  /\ Len(result) <= 100
              /\ \A j \in 1..Len(result) :
                    ~IsUnsafe(CharAt(result, j)) /\ ~IsSpace(CharAt(result, j))
              /\ Len(result) = IF full <= 100 THEN full ELSE 100
              /\ \A j \in 1..Len(input) :
                    (Emits(input, j) /\ PlaceOf(input, j) <= 100) =>
                       CharAt(result, PlaceOf(input, j))
                          = IF StaysSpace(input, j) THEN "_" ELSE CharAt(input, j)

\* a title with an unsafe character and a space, longer than the cut once
\* they are dealt with, has been sanitized: the underscore is the last
\* character kept
C16_Witness ==
    /\ output # <<>>
    /\ output[1].fn = "sanitizeFilename"
    /\ input = Repeat("a", 99) \o "* a"
    /\ output[1].result = Repeat("a", 99) \o "_"

-----------------------------------------------------------------------------
(* send2kindle.js: parseArgs, handleBookMode, main *)

\* a value that is falsy in JavaScript
Falsy(v) == v \in {Undefined, Null, ""}

\* a || b || ... || null
RECURSIVE FirstTruthy(_)
FirstTruthy(values) ==
    IF values = <<>> THEN Null
    ELSE IF ~Falsy(Head(values)) THEN Head(values)
    ELSE FirstTruthy(Tail(values))

NoArgs == [debug |-> FALSE, inputs |-> <<>>, book |-> Null, author |-> Null]

\* the loop of parseArgs from argument i on
RECURSIVE ParseFrom(_, _, _)
ParseFrom(args, i, result) ==
    IF i > Len(args) THEN result
    ELSE IF args[i] \in {"--debug", "-d"}
    THEN ParseFrom(args, i + 1, [result EXCEPT !.debug = TRUE])
    ELSE IF args[i] \in {"--book", "-b"} /\ i + 1 <= Len(args)
    THEN ParseFrom(args, i + 2, [result EXCEPT !.book = args[i + 1]])
    ELSE IF args[i] \in {"--author", "-a"} /\ i + 1 <= Len(args)
    THEN ParseFrom(args, i + 2, [result EXCEPT !.author = args[i + 1]])
    ELSE IF ~StartsAt(args[i], "-", 1)
    THEN ParseFrom(args, i + 1, [result EXCEPT !.inputs = Append(@, args[i])])
    ELSE ParseFrom(args, i + 1, result)

\* result.input = result.inputs[0] || null
WithInput(result) ==
    [debug |-> result.debug, inputs |-> result.inputs, book |-> result.book,
     author |-> result.author,
     input |-> IF result.inputs = <<>> THEN Null ELSE FirstTruthy(<<result.inputs[1]>>)]

\* parseArgs(args): the arguments from the third on
parseArgs(args) == WithInput(ParseFrom(args, 3, NoArgs))

\* input.toLowerCase().endsWith('.pdf')
EndsWithPdf(s) == Len(s) >= 4 /\ StartsAtI(s, ".pdf", Len(s) - 3)

\* getInputType(input), existing being the paths fs.existsSync finds
getInputType(s, existing) ==
    IF StartsAt(s, "http://", 1) \/ StartsAt(s, "https://", 1) THEN "url"
    ELSE IF EndsWithPdf(s) THEN "pdf"
    ELSE IF s \in existing THEN "file"
    ELSE "unknown"

\* process.cwd()
Cwd == "/home/user"

\* path.resolve(p)
Resolve(p) == IF StartsAt(p, "/", 1) THEN p ELSE Cwd \o "/" \o p

\* const args = parseArgs(process.argv)
Args == parseArgs(argv)

\* { title: a.title, htmlContent: a.content }
Chapter(a) == [title |-> a.title, htmlContent |-> a.content]

\* articles.map(...)
Chapters(docs) == [i \in DOMAIN docs |-> Chapter(docs[i])]

\* the author taken from the last document
BookAuthor_lastDoc(author, docs) ==
    IF docs = <<>> THEN FirstTruthy(<<author>>)
    ELSE FirstTruthy(<<author, docs[Len(docs)].byline, docs[Len(docs)].siteName>>)

\* args.author || articles[0]?.byline || articles[0]?.siteName || null
BookAuthor(author, docs) ==
    IF docs = <<>> THEN FirstTruthy(<<author>>)
    ELSE FirstTruthy(<<author, docs[1].byline, docs[1].siteName>>)

\* the argument of convertBookToEpub
BookRequest(args, docs) ==
    [fn |-> "convertBookToEpub", chapters |-> Chapters(docs), htmlContent |-> Undefined,
     title |-> args.book, author |-> BookAuthor(args.author, docs), debugMode |-> args.debug]

\* the argument of convertToEpub
EpubRequest(args, doc) ==
    [fn |-> "convertToEpub", chapters |-> <<>>, htmlContent |-> doc.content,
     title |-> doc.title, author |-> FirstTruthy(<<doc.byline, doc.siteName>>),
     debugMode |-> args.debug]

\* the two checks of handleBookMode taken the other way round
BookModeError_countFirst(inputs, existing) ==
    IF Len(inputs) < 2 THEN Some("Book mode requires at least 2 URLs")
    ELSE IF \E i \in DOMAIN inputs : getInputType(inputs[i], existing) # "url"
    THEN Some("Book mode only supports URLs as inputs")
    ELSE None

\* the first message handleBookMode throws for these inputs, if any
BookModeError(inputs, existing) ==
    IF \E i \in DOMAIN inputs : getInputType(inputs[i], existing) # "url"
    THEN Some("Book mode only supports URLs as inputs")
    ELSE IF Len(inputs) < 2 THEN Some("Book mode requires at least 2 URLs")
    ELSE None

-----------------------------------------------------------------------------
(* The environment of main *)

\* the most inputs on a command line
MaxInputs == 3

InputPool == { "https://a.com", "https://b.com", "/path/file.PDF", "notes.epub" }

\* the paths that may exist on disk
PathPool == { "/path/file.PDF", "notes.epub" }

DebugFlags == { <<>>, <<"--debug">> }
BookFlags == { <<>>, <<"--book", "My Book">> }
AuthorFlags == { <<>>, <<"--author", "Jane">>, <<"--author", "">> }

\* process.argv
ArgvPool ==
    { <<"node", "send2kindle.js">> \o d \o b \o a \o inputs :
         d \in DebugFlags, b \in BookFlags, a \in AuthorFlags,
         inputs \in UNION {[1..n -> InputPool] : n \in 0..MaxInputs} }

\* the documents extract(url) may come to: with a byline, with a site name
\* only, with neither
DocsOf(u) ==
    { Doc("Title of " \o u, "<p>" \o u \o "</p>", u, byline, siteName) :
         byline \in {"Ann", Null}, siteName \in {"Site", Null} }
        \ { Doc("Title of " \o u, "<p>" \o u \o "</p>", u, "Ann", Null) }

\* how the promise of extract(url) may settle
ExtractOutcomes(u) == {Fulfilled(doc) : doc \in DocsOf(u)} \cup {Rejected(NetworkError)}

\* what a converter returns (a path), or None when it throws
ConvertOutcomes(request) ==
    { Some(IF request.fn = "convertBookToEpub" THEN "/tmp/book.epub" ELSE "/tmp/test.epub"),
      None }

ConvertError == "pandoc is not installed"

\* how the promise of sendToKindle may settle
SendOutcomes == { "", "Error sending email: connection refused" }

-----------------------------------------------------------------------------
(* The state machine of one run of main *)

InitMain ==
    /\ ExtractIdle
    /\ input = Undefined
    /\ output = <<>>
    /\ argv \in ArgvPool
    /\ files \in SUBSET PathPool
    /\ mainPc = "start"
    /\ articles = <<>>
    /\ extracted = <<>>
    /\ converted = <<>>
    /\ sent = <<>>
    /\ failure = ""

\* main rejects with this message
Fail(message) ==
    /\ mainPc' = "failed"
    /\ failure' = message

\* extract(url) is called and awaited
CallExtract(u, awaiting) ==
    /\ extracted' = Append(extracted, [url |-> u, settled |-> Pending])
    /\ mainPc' = awaiting
    /\ UNCHANGED failure

\* after the file to send is known: the debug message, or sendToKindle is
\* called and awaited
SendUnless(skip, file) ==
    IF skip
    THEN mainPc' = "done" /\ UNCHANGED <<sent, failure>>
    ELSE mainPc' = "send" /\ sent' = Append(sent, file) /\ UNCHANGED failure

\* a converter is called: it throws, or returns the file
Convert(request, skip) ==
    /\ converted' = Append(converted, request)
    /\ \E made \in ConvertOutcomes(request) :
          IF made = None THEN Fail(ConvertError) /\ UNCHANGED sent
          ELSE SendUnless(skip, made[1])

\* handleBookMode up to its first await
StartBook ==
    IF BookModeError(Args.inputs, files) # None
    THEN Fail(BookModeError(Args.inputs, files)[1]) /\ UNCHANGED <<extracted, sent>>
    ELSE CallExtract(Args.inputs[1], "bookExtract") /\ UNCHANGED sent

\* the switch of main on a pdf or a file path
StartPath(inputType) ==
    IF inputType = "pdf" /\ Args.input \notin files
    THEN Fail("PDF file not found: " \o Args.input) /\ UNCHANGED sent
    ELSE IF inputType \in {"pdf", "file"}
    THEN SendUnless(FALSE, Resolve(Args.input))
    ELSE Fail("Could not determine input type. Input should be a URL (http:// or https://) or a file path.")
            /\ UNCHANGED sent

\* the switch of main up to its first await
StartSingle(inputType) ==
    IF inputType = "url"
    THEN CallExtract(Args.input, "urlExtract") /\ UNCHANGED sent
    ELSE StartPath(inputType) /\ UNCHANGED extracted

\* main() is called and runs to its first await, to its end or to the exit
Main ==
    /\ mainPc = "start"
    /\ IF Args.input = Null
       THEN mainPc' = "exit" /\ UNCHANGED <<extracted, sent, failure>>
       ELSE IF ~Falsy(Args.book) THEN StartBook
       ELSE StartSingle(getInputType(Args.input, files))
    /\ UNCHANGED <<argv, files, articles, converted>>
    /\ UNCHANGED outsideMain

\* the extraction awaited settles
SettledWith(settled) ==
    [extracted EXCEPT ![Len(extracted)] = [url |-> @.url, settled |-> settled]]

\* articles.unshift in place of articles.push
BookExtractDoneReversed ==
    /\ mainPc = "bookExtract"
    /\ \E settled \in ExtractOutcomes(extracted[Len(extracted)].url) :
          IF settled.state = "rejected"
          THEN /\ Fail(settled.error)
               /\ extracted' = SettledWith(settled)
               /\ UNCHANGED <<articles, converted, sent>>
          ELSE /\ articles' = <<settled.value[1]>> \o articles
               /\ IF Len(articles') < Len(Args.inputs)
                  THEN /\ extracted' = Append(SettledWith(settled),
                                              [url |-> Args.inputs[Len(articles') + 1],
                                               settled |-> Pending])
                       /\ UNCHANGED <<mainPc, failure, converted, sent>>
                  ELSE /\ extracted' = SettledWith(settled)
                       /\ Convert(BookRequest(Args, articles'), Args.debug)
    /\ UNCHANGED <<argv, files>>
    /\ UNCHANGED outsideMain

\* a variant that goes on to the next URL after a failed extraction
BookExtractDone_goOn ==
    /\ mainPc = "bookExtract"
    /\ \E settled \in ExtractOutcomes(extracted[Len(extracted)].url) :
          /\ articles' = IF settled.state = "rejected" THEN articles
                         ELSE Append(articles, settled.value[1])
          /\ IF Len(extracted) < Len(Args.inputs)
             THEN /\ extracted' = Append(SettledWith(settled),
                                         [url |-> Args.inputs[Len(extracted) + 1],
                                          settled |-> Pending])
                  /\ UNCHANGED <<mainPc, failure, converted, sent>>
             ELSE /\ extracted' = SettledWith(settled)
                  /\ IF settled.state = "rejected"
                     THEN Fail(settled.error) /\ UNCHANGED <<converted, sent>>
                     ELSE Convert(BookRequest(Args, articles'), Args.debug)
    /\ UNCHANGED <<argv, files>>
    /\ UNCHANGED outsideMain

\* handleBookMode resumes from await extract(url): the next extraction is
\* started, or the book is converted and main goes on
BookExtractDone ==
    /\ mainPc = "bookExtract"
    /\ \E settled \in ExtractOutcomes(extracted[Len(extracted)].url) :
          IF settled.state = "rejected"
          THEN /\ Fail(settled.error)
               /\ extracted' = SettledWith(settled)
               /\ UNCHANGED <<articles, converted, sent>>
          ELSE /\ articles' = Append(articles, settled.value[1])
               /\ IF Len(articles') < Len(Args.inputs)
                  THEN /\ extracted' = Append(SettledWith(settled),
                                              [url |-> Args.inputs[Len(articles') + 1],
                                               settled |-> Pending])
                       /\ UNCHANGED <<mainPc, failure, converted, sent>>
                  ELSE /\ extracted' = SettledWith(settled)
                       /\ Convert(BookRequest(Args, articles'), Args.debug)
    /\ UNCHANGED <<argv, files>>
    /\ UNCHANGED outsideMain

\* main resumes from await extract(args.input)
UrlExtractDone ==
    /\ mainPc = "urlExtract"
    /\ \E settled \in ExtractOutcomes(extracted[Len(extracted)].url) :
          /\ extracted' = SettledWith(settled)
          /\ IF settled.state = "rejected"
             THEN Fail(settled.error) /\ UNCHANGED <<articles, converted, sent>>
             ELSE /\ articles' = <<settled.value[1]>>
                  /\ Convert(EpubRequest(Args, settled.value[1]), Args.debug)
    /\ UNCHANGED <<argv, files>>
    /\ UNCHANGED outsideMain

\* a variant of SendDone that sends again after a failure
SendDoneWithRetry ==
    /\ mainPc = "send"
    /\ \E error \in SendOutcomes :
          IF error = "" THEN mainPc' = "done" /\ UNCHANGED <<failure, sent>>
          ELSE IF Len(sent) < 2
          THEN sent' = Append(sent, sent[1]) /\ UNCHANGED <<mainPc, failure>>
          ELSE Fail(error) /\ UNCHANGED sent
    /\ UNCHANGED <<argv, files, articles, extracted, converted>>
    /\ UNCHANGED outsideMain

\* main resumes from await sendToKindle(fileToSend, config)
SendDone ==
    /\ mainPc = "send"
    /\ \E error \in SendOutcomes :
          IF error = "" THEN mainPc' = "done" /\ UNCHANGED failure
          ELSE Fail(error)
    /\ UNCHANGED <<argv, files, articles, extracted, converted, sent>>
    /\ UNCHANGED outsideMain

NextMain ==
    \/ Main
    \/ BookExtractDone
    \/ UrlExtractDone
    \/ SendDone

SpecMain == InitMain /\ [][NextMain]_vars

-----------------------------------------------------------------------------
(* Properties of main *)

\* main got inputs and the --book option: it runs handleBookMode
InBookMode == Args.input # Null /\ ~Falsy(Args.book)

\* the text is a URL for the command line
IsHttpUrl(s) == StartsAt(s, "http://", 1) \/ StartsAt(s, "https://", 1)

\* no extraction, conversion or send has been started
NothingStarted == extracted = <<>> /\ converted = <<>> /\ sent = <<>>

\* the calls of convertBookToEpub
BookRequests == {converted[c] : c \in {d \in DOMAIN converted : converted[d].fn = "convertBookToEpub"}}

\* C17: in book mode the extractions run one after the other in the order of
\* the URLs on the command line, and the chapter list handed to
\* convertBookToEpub has one chapter per URL, in that order: chapter i has
\* the title and the content of the document extract returned for URL i.
C17_ChaptersInUrlOrder ==
    InBookMode =>
       /\ Len(extracted) <= Len(Args.inputs)
       /\ \A i \in DOMAIN extracted :
             /\ extracted[i].url = Args.inputs[i]
             /\ i < Len(extracted) => extracted[i].settled.state = "fulfilled"
       /\ \A request \in BookRequests :
             /\ Len(request.chapters) = Len(Args.inputs)
             /\ Len(extracted) = Len(Args.inputs)
             /\ \A i \in DOMAIN Args.inputs :
                   /\ extracted[i].settled.state = "fulfilled"
                   /\ request.chapters[i].title = extracted[i].settled.value[1].title
                   /\ request.chapters[i].htmlContent = extracted[i].settled.value[1].content

\* a book of three chapters, the first and the last from one URL that gave
\* two different documents, has been handed to convertBookToEpub
C17_Witness ==
    /\ InBookMode
    /\ Len(Args.inputs) = 3
    /\ Args.inputs[1] = Args.inputs[3]
    /\ Args.inputs[1] # Args.inputs[2]
    /\ BookRequests # {}
    /\ extracted[1].settled # extracted[3].settled
    /\ \A request \in BookRequests :
          /\ request.chapters[1].title = "Title of " \o Args.inputs[1]
          /\ request.chapters[2].htmlContent = "<p>" \o Args.inputs[2] \o "</p>"

\* C18 as the spec has it: the author handed to convertBookToEpub is the
\* --author option when it is given, else the byline of the first document,
\* else null.
C18_AuthorOrBylineOrNull ==
    \A request \in BookRequests :
       request.author =
          IF Args.author # Null THEN Args.author
          ELSE IF extracted[1].settled.value[1].byline # Null
          THEN extracted[1].settled.value[1].byline
          ELSE Null

\* C18: the author handed to convertBookToEpub is the --author option when it
\* is given and not empty, else the byline of the first document, else the
\* site name of the first document, else null.
C18_AuthorFallback ==
    \A request \in BookRequests :
       request.author =
          IF Args.author \notin {Null, ""} THEN Args.author
          ELSE IF extracted[1].settled.value[1].byline # Null
          THEN extracted[1].settled.value[1].byline
          ELSE IF extracted[1].settled.value[1].siteName # Null
          THEN extracted[1].settled.value[1].siteName
          ELSE Null

\* without --author, a first document without byline and a second one with
\* a byline: the author is the site name of the first
C18_Witness ==
    /\ BookRequests # {}
    /\ Args.author = Null
    /\ extracted[1].settled.value[1].byline = Null
    /\ extracted[1].settled.value[1].siteName = "Site"
    /\ extracted[2].settled.value[1].byline = "Ann"
    /\ \A request \in BookRequests : request.author = "Site"

\* C19: in book mode main fails with 'Book mode only supports URLs as
\* inputs' when an input is not a URL, whatever the number of inputs, and
\* with 'Book mode requires at least 2 URLs' when the inputs are URLs and
\* fewer than two; either way no extraction, conversion or send has been
\* started.
C19_BookModeValidation ==
    (InBookMode /\ mainPc # "start") =>
       /\ (\E i \in DOMAIN Args.inputs : ~IsHttpUrl(Args.inputs[i])) =>
             /\ mainPc = "failed"
             /\ failure = "Book mode only supports URLs as inputs"
             /\ NothingStarted
       /\ ((\A i \in DOMAIN Args.inputs : IsHttpUrl(Args.inputs[i])) /\ Len(Args.inputs) < 2) =>
             /\ mainPc = "failed"
             /\ failure = "Book mode requires at least 2 URLs"
             /\ NothingStarted
       /\ mainPc = "failed" /\ extracted = <<>> =>
             \/ \E i \in DOMAIN Args.inputs : ~IsHttpUrl(Args.inputs[i])
             \/ Len(Args.inputs) < 2

\* --book with a single input that is no URL has been refused for the input,
\* not for the count
C19_Witness ==
    /\ InBookMode
    /\ Len(Args.inputs) = 1
    /\ ~IsHttpUrl(Args.inputs[1])
    /\ mainPc = "failed"
    /\ failure = "Book mode only supports URLs as inputs"
    /\ NothingStarted

\* the kind of the first input
InputType == getInputType(Args.input, files)

-----------------------------------------------------------------------------
(* config.js and mailer.js: loadConfig and sendToKindle *)

\* loadConfig() under the environment env (a variable that is not set is
\* undefined)
loadConfig(env) ==
    [kindleEmail |-> env.KINDLE_EMAIL,
     smtp |-> [host |-> OrElse(env.SMTP_SERVER, "smtp.gmail.com"),
               secure |-> FALSE,
               auth |-> [user |-> env.SMTP_USER, pass |-> env.SMTP_PASSWORD]],
     fromEmail |-> OrElse(env.FROM_EMAIL, env.SMTP_USER)]

\* path.basename(p) of a POSIX path that does not end with a slash
Basename(p) ==
    SubSeq(p, Greatest({i \in 1..Len(p) : StartsAt(p, "/", i)}) + 1, Len(p))

KindleEmailMessage ==
    "KINDLE_EMAIL is not set. Set it in your environment:\n"
    \o "  export KINDLE_EMAIL=\"your-kindle-email@kindle.com\"\n\n"
    \o "Find your Kindle email at:\n"
    \o "  https://www.amazon.com/hz/mycd/myx#/home/settings/payment"

CredentialsMessage ==
    "SMTP credentials not configured. Set the following environment variables:\n"
    \o "  export SMTP_USER=\"your-email@gmail.com\"\n"
    \o "  export SMTP_PASSWORD=\"your-app-password\"\n\n"
    \o "Optional variables:\n"
    \o "  export SMTP_SERVER=\"smtp.gmail.com\" (default)\n"
    \o "  export SMTP_PORT=\"587\" (default)\n"
    \o "  export FROM_EMAIL=\"your-email@gmail.com\""

\* the checks of sendToKindle taken file first
ConfigError_fileFirst(filePath, config, existing) ==
    IF filePath \notin existing THEN Some("File not found: " \o filePath)
    ELSE IF Falsy(config.kindleEmail) THEN Some(KindleEmailMessage)
    ELSE IF Falsy(config.smtp.auth.user) \/ Falsy(config.smtp.auth.pass)
    THEN Some(CredentialsMessage)
    ELSE None

\* the error sendToKindle throws before it reads the file, if any
ConfigError(filePath, config, existing) ==
    IF Falsy(config.kindleEmail) THEN Some(KindleEmailMessage)
    ELSE IF Falsy(config.smtp.auth.user) \/ Falsy(config.smtp.auth.pass)
    THEN Some(CredentialsMessage)
    ELSE IF filePath \notin existing THEN Some("File not found: " \o filePath)
    ELSE None

\* the message handed to transporter.sendMail
MailOptions(filePath, config, fileContent) ==
    [from |-> config.fromEmail,
     to |-> config.kindleEmail,
     subject |-> "Document for Kindle",
     text |-> "Please find the attached document.",
     attachments |-> <<[filename |-> Basename(filePath), content |-> fileContent]>>]

\* the error thrown for an error of sendMail
TransportError(error) ==
    IF error.code = "EAUTH"
    THEN "Email authentication failed: " \o error.message \o "\n\n"
         \o "For Gmail:\n"
         \o "1. Enable 2-Factor Authentication on your Google account\n"
         \o "2. Create an App Password: https://myaccount.google.com/apppasswords\n"
         \o "3. Use the App Password as SMTP_PASSWORD"
    ELSE "Error sending email: " \o error.message

-----------------------------------------------------------------------------
(* mailer.js: one call of sendToKindle *)

\* what an environment variable may hold
Settings(value) == {Undefined, "", value}

EnvPool ==
    [KINDLE_EMAIL : Settings("kindle@kindle.com"),
     SMTP_SERVER : {Undefined},
     SMTP_USER : Settings("user@gmail.com"),
     SMTP_PASSWORD : Settings("secret"),
     FROM_EMAIL : {Undefined, "me@example.com"}]

FilePathPool == {"/path/to/file.epub", "/missing.epub"}

\* fs.readFileSync gives the content, or throws (the path is a directory)
ReadOutcomes == {Some("file-content"), None}

ReadError == "EISDIR: illegal operation on a directory, read"

\* how the promise of sendMail may settle: fulfilled, or rejected with an
\* error that has a code or has none
SendMailOutcomes ==
    { None,
      Some([code |-> "EAUTH", message |-> "Invalid login"]),
      Some([code |-> Undefined, message |-> "Connection timeout"]),
      Some([code |-> "ECONNECTION", message |-> "Connection refused"]) }

InitMailer ==
    /\ ExtractIdle
    /\ MainIdle
    /\ input \in [filePath : FilePathPool, env : EnvPool,
                  existing : SUBSET {"/path/to/file.epub"}]
    /\ output = [pc |-> "start", mails |-> <<>>, transport |-> None, settled |-> Pending]

\* sendToKindle(filePath, loadConfig()) runs up to the await of sendMail
SendToKindle ==
    /\ output.pc = "start"
    /\ LET config == loadConfig(input.env)
           error == ConfigError(input.filePath, config, input.existing)
       IN IF error # None
          THEN output' = [output EXCEPT !.pc = "settled", !.settled = Rejected(error[1])]
          ELSE \E read \in ReadOutcomes :
                  IF read = None
                  THEN output' = [output EXCEPT !.pc = "settled",
                                                !.settled = Rejected(ReadError)]
                  ELSE output' = [output EXCEPT
                                     !.pc = "sending",
                                     !.mails = Append(@, MailOptions(input.filePath, config, read[1]))]
    /\ UNCHANGED <<input, outsideStudy>>

\* the promise of sendMail settles
SendMailDone ==
    /\ output.pc = "sending"
    /\ \E outcome \in SendMailOutcomes :
          output' = [output EXCEPT
                        !.pc = "settled",
                        !.transport = Some(outcome),
                        !.settled = IF outcome = None THEN Fulfilled(Undefined)
                                    ELSE Rejected(TransportError(outcome[1]))]
    /\ UNCHANGED <<input, outsideStudy>>

NextMailer == SendToKindle \/ SendMailDone

SpecMailer == InitMailer /\ [][NextMailer]_vars

\* the variable of the environment is set
IsSet(value) == value # Undefined /\ value # ""

\* the first of the three checks that fails, as a number (0: none fails)
FirstFailing ==
    IF ~IsSet(input.env.KINDLE_EMAIL) THEN 1
    ELSE IF ~(IsSet(input.env.SMTP_USER) /\ IsSet(input.env.SMTP_PASSWORD)) THEN 2
    ELSE IF input.filePath \notin input.existing THEN 3
    ELSE 0

CheckHeadline(n) ==
    CASE n = 1 -> "KINDLE_EMAIL is not set"
      [] n = 2 -> "SMTP credentials not configured"
      [] n = 3 -> "File not found: " \o input.filePath

\* C21: sendToKindle hands a message to the transport only when the Kindle
\* address, the SMTP user and the SMTP password are set and the file exists;
\* otherwise it rejects with the message of the first failing check in that
\* order and hands over nothing; a failure of the transport with the code
\* EAUTH is reported as 'Email authentication failed', any other as 'Error
\* sending email: <message>'; at most one message is handed over.
C21_SendToKindle ==
    /\ Len(output.mails) <= 1
    /\ output.mails # <<>> => FirstFailing = 0
    /\ (output.pc # "start" /\ FirstFailing # 0) =>
          /\ output.mails = <<>>
          /\ output.settled.state = "rejected"
          /\ StartsAt(output.settled.error, CheckHeadline(FirstFailing), 1)
          /\ (FirstFailing = 3 => output.settled.error = CheckHeadline(3))
    /\ \A k \in DOMAIN output.transport :
          IF output.transport[k] = None THEN output.settled.state = "fulfilled"
          ELSE /\ output.settled.state = "rejected"
               /\ IF output.transport[k][1].code = "EAUTH"
                  THEN StartsAt(output.settled.error, "Email authentication failed", 1)
                  ELSE output.settled.error
                          = "Error sending email: " \o output.transport[k][1].message

\* an existing file was handed to the transport, addressed to the Kindle,
\* and the transport failed with a code other than EAUTH
C21_Witness ==
    /\ output.pc = "settled"
    /\ Len(output.mails) = 1
    /\ output.mails[1].to = "kindle@kindle.com"
    /\ output.mails[1].attachments[1].filename = "file.epub"
    /\ output.transport = Some(Some([code |-> "ECONNECTION", message |-> "Connection refused"]))
    /\ output.settled = Rejected("Error sending email: Connection refused")

-----------------------------------------------------------------------------
(* The extractors together: extract, and tryExtractFromNextData on a page *)

InitExtractors == Init \/ InitNextData

\* extract goes on, or tryExtractFromNextData is applied to its page
NextExtractors == Next \/ (ExtractIdle /\ NextNextData)

SpecExtractors == InitExtractors /\ [][NextExtractors]_vars

\* the page supplies a title for its post: a title member that is not the
\* empty string
TitleSupplied(page) ==
    Includes(page, "\"title\":") /\ ~Includes(page, "\"title\":\"\"")

\* the title the structured-data path gives the document of this page; a
\* title the page supplies that is no string is the JSON value it is
NextDataTitle(page, title) ==
    IF ~TitleSupplied(page) THEN title = "Article"
    ELSE IF Includes(page, "\"title\":\"")
    THEN title # "" /\ Includes(page, "\"title\":\"" \o title \o "\"")
    ELSE title.t \notin {"null", "undefined", "string"}

\* the title the social-post extractor gives the document of this tweet
TweetTitle(tweet, handle, title) ==
    IF IsArticle(tweet)
    THEN IF tweet.article[1].title \in {Undefined, ""}
         THEN title = "Article by @" \o handle
         ELSE title = tweet.article[1].title
    ELSE title = "Tweet by @" \o handle

\* C22: the title of every document an extractor returns is not empty:
\* extractArticle and tryExtractFromNextData give 'Article' when the page
\* supplies no title, the article branch of extractTweet gives 'Article by
\* @<handle>' when the article has none, and the short-post branch always
\* gives 'Tweet by @<handle>'.
C22_TitleNeverEmpty ==
    /\ inner.state = "fulfilled" =>
          /\ inner.value[1].title \notin {"", Undefined, Null}
          /\ Invoked[1] = "extractArticle" =>
                inner.value[1].title
                   = (IF parsed[1][1].title \in {Undefined, ""} THEN "Article"
                      ELSE parsed[1][1].title)
          /\ Invoked[1] = "extractTweet" =>
                TweetTitle(data[1].tweet[1],
                           AuthorHandle(data[1].tweet[1], TweetUrlMatch(url)[1].username),
                           inner.value[1].title)
    /\ \A i \in DOMAIN output :
          output[i].result.kind = "doc" =>
             NextDataTitle(input.html, output[i].result.doc[1].title)

\* an article of a tweet that has no title of its own was returned as
\* 'Article by @john'
C22_Witness ==
    /\ pc = "done"
    /\ outer.state = "fulfilled"
    /\ IsArticle(data[1].tweet[1])
    /\ data[1].tweet[1].article[1].title = Undefined
    /\ outer.value[1].title = "Article by @john"

-----------------------------------------------------------------------------
(* twitter.js: convertArticleBlocksToHtml applied to an article *)

\* the longest block list of an article
MaxBlocks == 2

\* entities of an article body: a picture that resolves, dividers, one of
\* them under the key of the picture, and a picture that does not resolve
RenderEntryPool ==
    { Entry("1", "MEDIA", Undefined, "m1"),
      Entry("1", "DIVIDER", Undefined, Undefined),
      Entry("2", "DIVIDER", Undefined, Undefined),
      Entry("2", "MEDIA", Undefined, "m9") }

RenderEntityMaps == {None} \cup {Some(q) : q \in SeqsUpTo(RenderEntryPool, MaxEntities)}

RenderMediaPool ==
    { None,
      Some(<<[media_id |-> "m1", original_img_url |-> "https://pbs.twimg.com/media/a.png"]>>) }

QuotedSummary(key) ==
    [author |-> "Ann", handle |-> "ann", text |-> "a quoted tweet", title |-> Undefined,
     url |-> "https://x.com/ann/status/" \o key]

\* the maps fetchReferencedTweets may have come to (the empty one also stands
\* for the argument left out)
ReferencedPool == {[k \in keys |-> QuotedSummary(k)] : keys \in SUBSET {"1", "2"}}

RenderBlockPool ==
    { Block("unstyled", "Before", Undefined),
      Block("header-two", "After", Undefined),
      Block("atomic", " ", "1"),
      Block("atomic", " ", "2"),
      Block("atomic", " ", Undefined) }

InitRender ==
    /\ ExtractIdle
    /\ MainIdle
    /\ input \in [blocks : SeqsUpTo(RenderBlockPool, MaxBlocks),
                  entityMap : RenderEntityMaps,
                  mediaEntities : RenderMediaPool,
                  referencedTweets : ReferencedPool]
    /\ output = <<>>

\* convertArticleBlocksToHtml(blocks, entityMap, mediaEntities, referencedTweets)
ConvertBlocks ==
    /\ output = <<>>
    /\ output' = <<Applied("convertArticleBlocksToHtml",
                           convertArticleBlocksToHtml(input.blocks, input.entityMap,
                                                      input.mediaEntities,
                                                      input.referencedTweets))>>
    /\ UNCHANGED <<input, outsideStudy>>

NextRender == ConvertBlocks

SpecRender == InitRender /\ [][NextRender]_vars

\* the entities of the article under the key
EntitiesAt(key) ==
    IF input.entityMap = None THEN {}
    ELSE {input.entityMap[1][i] : i \in {j \in DOMAIN input.entityMap[1] :
                                            input.entityMap[1][j].key = key}}

\* the key maps to a media reference that resolves to a URL
HasImage(key) ==
    /\ input.mediaEntities # None
    /\ \E e \in EntitiesAt(key) : \E i \in DOMAIN input.mediaEntities[1] :
          /\ e.type = "MEDIA"
          /\ input.mediaEntities[1][i].media_id = e.mediaId
          /\ input.mediaEntities[1][i].original_img_url \notin {Undefined, ""}

HasQuote(key) == key \in DOMAIN input.referencedTweets

IsDivider(key) == \E e \in EntitiesAt(key) : e.type = "DIVIDER"

\* what a piece of the output is
KindOf(text) ==
    IF StartsAt(text, "<p><img src=\"", 1) THEN "image"
    ELSE IF StartsAt(text, "<blockquote style=", 1) THEN "quote"
    ELSE IF text = "<hr>\n" THEN "rule"
    ELSE IF text = "" THEN "nothing"
    ELSE "other"

\* the output for block i of the article taken alone
RenderedAlone(i) ==
    convertArticleBlocksToHtml(<<input.blocks[i]>>, input.entityMap, input.mediaEntities,
                               input.referencedTweets)

AtomicBlocks == {i \in DOMAIN input.blocks : input.blocks[i].type = "atomic"}

\* C23 as the spec has it: an atomic block is rendered as the image of its
\* key, else as the quoted post of its key, else as a rule when the key is a
\* divider, else as nothing.
C23_ImageQuoteDivider ==
    \A n \in DOMAIN output : \A i \in AtomicBlocks :
       KindOf(RenderedAlone(i)) =
          (IF HasImage(input.blocks[i].key) THEN "image"
           ELSE IF HasQuote(input.blocks[i].key) THEN "quote"
           ELSE IF IsDivider(input.blocks[i].key) THEN "rule"
           ELSE "nothing")

\* C23: an atomic block is rendered as the image of its key, else as a rule
\* when the key is a divider, else as the quoted post of its key, else as
\* nothing; a key that qualifies for several is rendered as the first of
\* these.
C23_AtomicPriority ==
    \A n \in DOMAIN output : \A i \in AtomicBlocks :
       KindOf(RenderedAlone(i)) =
          (IF HasImage(input.blocks[i].key) THEN "image"
           ELSE IF IsDivider(input.blocks[i].key) THEN "rule"
           ELSE IF HasQuote(input.blocks[i].key) THEN "quote"
           ELSE "nothing")

\* an article whose one block has a key that is a divider and a quoted post
\* and no image was rendered as the rule
C23_Witness ==
    /\ output = <<Applied("convertArticleBlocksToHtml", "<hr>\n")>>
    /\ input.blocks = <<Block("atomic", " ", "2")>>
    /\ HasQuote("2")
    /\ IsDivider("2")
    /\ ~HasImage("2")

\* the key of atomic block i matches no media, divider or quoted tweet
Unmatched(i) ==
    /\ ~HasImage(input.blocks[i].key)
    /\ ~IsDivider(input.blocks[i].key)
    /\ ~HasQuote(input.blocks[i].key)

\* the outputs for blocks 1..n, each taken alone, one after the other
RECURSIVE RenderedUpTo(_)
RenderedUpTo(n) == IF n = 0 THEN "" ELSE RenderedUpTo(n - 1) \o RenderedAlone(n)

\* the article without its atomic blocks that match nothing
MatchedBlocks ==
    SelectSeq(input.blocks, LAMBDA b : ~(b.type = "atomic" /\ ~HasImage(b.key)
                                          /\ ~IsDivider(b.key) /\ ~HasQuote(b.key)))

\* the output is, in block order, what each block gives alone; an atomic
\* block that matches nothing gives nothing, and the article without such
\* blocks gives the same output
RendersInOrder ==
    \A n \in DOMAIN output :
       /\ output[n].result = RenderedUpTo(Len(input.blocks))
       /\ \A i \in AtomicBlocks : Unmatched(i) => RenderedAlone(i) = ""
       /\ \A i \in DOMAIN input.blocks \ AtomicBlocks : RenderedAlone(i) # ""
       /\ output[n].result
             = convertArticleBlocksToHtml(MatchedBlocks, input.entityMap,
                                          input.mediaEntities, input.referencedTweets)

-----------------------------------------------------------------------------
(* The byline of a tweet *)

\* the handle in the URL of a tweet: the text between the host and /status/
UrlHandle(u) ==
    LET from  == IndexFrom(u, "://", 1) + 3
        slash == IndexFrom(u, "/", from)
    IN  SubSeq(u, slash + 1, IndexFrom(u, "/status/", slash + 1) - 1)

\* the author of the tweet has this field, and it is not empty
AuthorHas(tweet, field) ==
    tweet.author # None /\ tweet.author[1][field] \notin {Undefined, ""}

\* C25 as the spec has it: the byline of a tweet is the display name of the
\* author, else the handle of the author in the API response, else the handle
\* in the URL.
C25_NameHandleUrl ==
    (inner.state = "fulfilled" /\ Invoked[1] = "extractTweet") =>
       inner.value[1].byline =
          (IF AuthorHas(data[1].tweet[1], "name") THEN data[1].tweet[1].author[1].name
           ELSE IF AuthorHas(data[1].tweet[1], "screen_name")
           THEN data[1].tweet[1].author[1].screen_name
           ELSE UrlHandle(url))

\* C25: in both branches of extractTweet the byline is the display name of
\* the author when there is one, else the handle in the URL.
C25_BylineFallback ==
    (inner.state = "fulfilled" /\ Invoked[1] = "extractTweet") =>
       inner.value[1].byline =
          (IF AuthorHas(data[1].tweet[1], "name") THEN data[1].tweet[1].author[1].name
           ELSE UrlHandle(url))

\* an article whose author has a handle and no display name was returned
\* with the handle of the URL as its byline
C25_Witness ==
    /\ pc = "done"
    /\ url = "https://twitter.com/jane/status/42"
    /\ outer.state = "fulfilled"
    /\ IsArticle(data[1].tweet[1])
    /\ data[1].tweet[1].author = Author(Undefined, "jo")
    /\ outer.value[1].byline = "jane"

-----------------------------------------------------------------------------
(* next-data.js: resolveUrls applied to rendered HTML *)

\* an element with one URL attribute
UrlElement(name, value) ==
    [name |-> name, value |-> value,
     text |-> IF name = "src" THEN "<img src=\"" \o value \o "\" alt=\"i\">"
              ELSE "<a href=\"" \o value \o "\">link</a>"]

\* values of src and href: root-relative ones (the root itself among them),
\* one that begins with two slashes, an absolute URL on another host
UrlValuePool == { "/a.png", "/", "//cdn.example.com/a.png", "https://other.com/x" }

UrlPartPool ==
    {UrlElement(name, value) : name \in {"src", "href"}, value \in UrlValuePool}
        \cup {[name |-> "", value |-> "", text |-> "<p>Some text</p>"]}

\* the baseUrl argument with the origin it has: left out, empty, URLs, and a
\* text that is no URL
BasePool ==
    { [baseUrl |-> Undefined, origin |-> None],
      [baseUrl |-> "", origin |-> None],
      [baseUrl |-> "https://example.com/article", origin |-> Some("https://example.com")],
      [baseUrl |-> "http://blog.example.org", origin |-> Some("http://blog.example.org")],
      [baseUrl |-> "not a url", origin |-> None] }

InitResolveUrls ==
    /\ ExtractIdle
    /\ MainIdle
    /\ input \in [parts : Fragments(UrlPartPool, MaxParts), base : BasePool]
    /\ output = <<>>

\* resolveUrls(html, baseUrl)
ResolveUrls ==
    /\ output = <<>>
    /\ output' = <<Applied("resolveUrls",
                           resolveUrls(TextOf(input.parts), input.base.baseUrl))>>
    /\ UNCHANGED <<input, outsideStudy>>

NextResolveUrls == ResolveUrls

SpecResolveUrls == InitResolveUrls /\ [][NextResolveUrls]_vars

\* the element with its value put after the origin when the value begins
\* with a slash
ResolvedElement(part, origin) ==
    IF part.name # "" /\ StartsAt(part.value, "/", 1)
    THEN UrlElement(part.name, origin \o part.value).text
    ELSE part.text

RECURSIVE ResolvedParts(_, _)
ResolvedParts(parts, origin) ==
    IF parts = <<>> THEN ""
    ELSE ResolvedElement(Head(parts), origin) \o ResolvedParts(Tail(parts), origin)

\* C26: resolveUrls puts the origin of the base URL before every src and
\* href value that begins with '/', leaves every other value as it is, and
\* returns the HTML unchanged when the base URL is left out or is no URL.
C26_RootRelativeResolved ==
    \A n \in DOMAIN output :
       output[n].result =
          (IF input.base.origin = None THEN TextOf(input.parts)
           ELSE ResolvedParts(input.parts, input.base.origin[1]))

-----------------------------------------------------------------------------
(* next-data.js: markdownToHtml applied to blocks between blank lines *)

MaxMarkdownBlocks == 2

\* blocks of markdown: empty and blank ones, headings (one of two lines, one
\* whose text is on the next line), seven "#", "#" with no whitespace after
\* it, an image alone and one with a tail, a blockquote, paragraphs
MarkdownBlockPool ==
    { "", " ", "# Hi", "### Why?", "###### Six **deep**", "# Title\nmore", "#\ntitle",
      "#nospace", "####### seven", "![i](/a.png)", "![i](/a.png) tail",
      "> A quote\n> goes on", "Some **text**.", "  padded  " }

\* the blank lines between two blocks
SeparatorPool == { "\n\n", "\n\n\n" }

InitMarkdown ==
    /\ ExtractIdle
    /\ MainIdle
    /\ input \in [blocks : Fragments(MarkdownBlockPool, MaxMarkdownBlocks),
                  separator : SeparatorPool]
    /\ output = <<>>

\* markdownToHtml(markdown)
MarkdownToHtml ==
    /\ output = <<>>
    /\ output' = <<Applied("markdownToHtml",
                           markdownToHtml(Join(input.blocks, input.separator)))>>
    /\ UNCHANGED <<input, outsideStudy>>

NextMarkdown == MarkdownToHtml

SpecMarkdown == InitMarkdown /\ [][NextMarkdown]_vars

\* the number of "#" the block starts with
HashCount(trimmed) == RunEnd(trimmed, 1, "#") - 1

\* the block starts with 1 to 6 "#" followed by whitespace and text
StartsAsHeading(trimmed) ==
    /\ HashCount(trimmed) \in 1..6
    /\ SpacesEnd(trimmed, HashCount(trimmed) + 1) > HashCount(trimmed) + 1
    /\ SpacesEnd(trimmed, HashCount(trimmed) + 1) <= Len(trimmed)

\* the text after the "#" and the whitespace
HeadingText(trimmed) ==
    SubSeq(trimmed, SpacesEnd(trimmed, HashCount(trimmed) + 1), Len(trimmed))

\* the element of a block that is not blank: the first rule that matches, in
\* the order heading, image alone, blockquote, paragraph
ElementOf(trimmed) ==
    IF StartsAsHeading(trimmed)
    THEN HeadingHtml(ToString(HashCount(trimmed)), convertInline(HeadingText(trimmed)))
    ELSE RenderPlain(trimmed, ImageOnlyMatch(trimmed))

\* one element for each block that is not blank, in the order of the blocks
RECURSIVE ElementsOf(_)
ElementsOf(blocks) ==
    IF blocks = <<>> THEN <<>>
    ELSE (IF Trim(Head(blocks)) = "" THEN <<>> ELSE <<ElementOf(Trim(Head(blocks)))>>)
             \o ElementsOf(Tail(blocks))

\* C27: markdownToHtml emits exactly one element for each block between
\* blank lines that is not blank, in input order, joined by single newlines;
\* the element is that of the first matching rule in the order heading, image
\* alone, blockquote, paragraph, and every block that starts with 1 to 6 "#"
\* followed by whitespace and text is an <hN> element with N the number of
\* "#"; empty input gives the empty string and blank blocks give nothing.
C27_OneElementPerBlock ==
    \A n \in DOMAIN output :
       output[n].result = Join(ElementsOf(input.blocks), "\n")

-----------------------------------------------------------------------------
(* twitter.js: the map of fetchReferencedTweets and the order of completion *)

\* the tasks of entity key k that the network answered with a usable tweet
Winners(k) == {i \in DOMAIN subs : Entries[i].key = k /\ Succeeded(i)}

\* the entry latest in the entity map among them
LastWinner(k) == CHOOSE i \in Winners(k) : \A j \in Winners(k) : j <= i

\* the summary made of entry i and of the tweet its own sub-fetch was
\* answered with
OwnSummary(i) ==
    [f \in {"author", "handle", "text", "title", "url"} |->
        Summary(Entries[i], subs[i].body[1][1].tweet[1])[f]]

\* C28: the map fetchReferencedTweets returns is determined by the entity map
\* and by what each sub-fetch was answered with, whatever the order in which
\* the sub-fetches completed: its keys are the keys of the entries whose
\* sub-fetch gave a quoted tweet, each key maps to the summary made of such an
\* entry and its own answer, and when several entries share a key the summary
\* is that of the entry latest in the entity map.
C28_CompletionOrderIrrelevant ==
    (InFanOut /\ Finished) =>
       /\ DOMAIN lookup = {Entries[i].key : i \in {j \in DOMAIN subs : Succeeded(j)}}
       /\ \A k \in DOMAIN lookup : lookup[k] = OwnSummary(LastWinner(k))

\* two entries share the key "1", both sub-fetches gave a quoted tweet, the
\* summaries differ, and the map holds that of the later entry
C28_Witness ==
    /\ InFanOut
    /\ Finished
    /\ \E i, j \in DOMAIN subs :
          /\ i < j
          /\ Entries[i].key = Entries[j].key
          /\ Succeeded(i)
          /\ Succeeded(j)
          /\ OwnSummary(i) # OwnSummary(j)
          /\ lookup[Entries[j].key] = OwnSummary(j)

-----------------------------------------------------------------------------
(* Classification and parsing of a social-post URL *)

ParseErrorMessage == "Could not parse Twitter URL"

\* C29: classification and parsing agree: every URL for which isTwitterUrl
\* returns true is matched by the pattern of extractTweet, so an extraction
\* routed to extractTweet never fails with "Could not parse Twitter URL".
C29_ClassifiedUrlsParse ==
    (pc # "start" /\ isTwitterUrl(url)) =>
       /\ Invoked = <<"extractTweet">>
       /\ TweetUrlMatch(url) # None
       /\ ~(inner.state = "rejected" /\ inner.error = ParseErrorMessage)

-----------------------------------------------------------------------------
(* Book mode: one extraction at a time, and none after a failure *)

\* the extractions that have failed
FailedExtractions == {i \in DOMAIN extracted : extracted[i].settled.state = "rejected"}

\* C30: in book mode the extraction of a URL starts only after the
\* extraction of the URL before it has completed, and when an extraction
\* fails no later URL is fetched, neither convertBookToEpub nor sendToKindle
\* is called, and main rejects with the error of that extraction.
C30_SequentialFailFast ==
    InBookMode =>
       /\ \A i \in DOMAIN extracted :
             i < Len(extracted) => extracted[i].settled.state = "fulfilled"
       /\ \A i \in FailedExtractions :
             /\ i = Len(extracted)
             /\ converted = <<>>
             /\ sent = <<>>
             /\ mainPc = "failed"
             /\ failure = extracted[i].settled.error

\* the second of three extractions failed after the first had returned its
\* document: the third URL was never fetched and main has rejected
C30_Witness ==
    /\ InBookMode
    /\ Len(Args.inputs) = 3
    /\ Len(extracted) = 2
    /\ extracted[1].settled.state = "fulfilled"
    /\ FailedExtractions = {2}
    /\ mainPc = "failed"
    /\ failure = NetworkError
    /\ converted = <<>>
    /\ sent = <<>>

=============================================================================
